---- MODULE Spec2Model ----
(***************************************************************************)
(* Cromemco D+7A raw-sample audio path of z80pack                          *)
(* (src/iodevices/cromemco-d+7a.c).                                        *)
(*                                                                         *)
(* The CPU-emulation thread calls cromemco_d7a_record on every write to    *)
(* port 1 or 3; the audio sink calls sdl_audio_callback (build WANT_SDL)   *)
(* or paCallback (build WANT_PORTAUDIO) on a thread of its own.            *)
(*                                                                         *)
(*   build = "sdl"   the producer brackets its critical section with       *)
(*                   SDL_LockAudioDevice/SDL_UnlockAudioDevice, and SDL    *)
(*                   holds the same lock around the callback: the critical *)
(*                   section (RecLocked) and a callback (SdlCallback) are  *)
(*                   single actions.  What a call does before it waits for *)
(*                   the lock (RecBegin) and after it has released it      *)
(*                   (RecReturn) are steps of their own, and a callback    *)
(*                   may run in between.                                   *)
(*   build = "flag"  the producer uses the hand-made flag ring_buffer.lock *)
(*                   and paCallback tests and sets the same flag; every    *)
(*                   access to shared memory is a step of its own          *)
(*                   (actions Rec... and Pa...).                           *)
(*                                                                         *)
(* A double is an IEEE-754 binary64 value and every operation on doubles   *)
(* rounds to the nearest double, ties to even (section "The C type         *)
(* double").  ratio is the pair <<n, d>> of a configuration with           *)
(* d7a_sample_rate / (f_value * 1000000.0) = n / d and d7a_sync_adjust =   *)
(* 1.0; timing_error[c] holds the double the code holds.                   *)
(***************************************************************************)
EXTENDS Integers, Sequences, FiniteSets

VARIABLES
    build,          \* "sdl" or "flag": which #ifdef branch was compiled
    ratio,          \* <<n, d>>: d7a_sample_rate / (f_value * 1000000.0) = n / d
    T,              \* CPU T-state counter (simglb)
    ring_buffer,    \* [lock, last_count, channel[c] = [sample, start, end, count]]
    last_data,      \* last_data[c]
    last_time,      \* last_time[c]
    timing_error,   \* timing_error[c], a double
    underflows, overflows, dropouts, timeouts,
    prod,           \* cromemco_d7a_record in progress: program counter and locals
    cons,           \* audio callback in progress: program counter and locals
    stream,         \* output buffer handed to the current/last callback
    appended,       \* history: samples stored into channel c's ring, in order
    popped,         \* history: samples copied out of channel c's ring, in order
    hist,           \* history: call counters and per-channel write bookkeeping
    wave,           \* D+7A recording: wave_buffer, wave_index[c], d7a_recording_limit
    d7a,            \* D+7A device: where init/off stand, the audio sink, the export
    psg,            \* psg[1], psg[2]: struct ayumi of sound_board.psg1 / psg2
    sel,            \* sel[1], sel[2]: psg_register_select_1 / _2
    nm,             \* Noisemaker device: init/off, sink, recording buffer, callback
    obs             \* history: what the generators were seen to do

\* the variables the D+7A actions below leave alone
nmVars == <<d7a, psg, sel, nm, obs>>

vars == <<build, ratio, T, ring_buffer, last_data, last_time, timing_error,
          underflows, overflows, dropouts, timeouts, prod, cons, stream,
          appended, popped, hist, wave, d7a, psg, sel, nm, obs>>

---------------------------------------------------------------------------
(* Program constants and model bounds *)

NUM_CHANNELS == 2

\* ring buffer size per channel; 4048 in the source, scaled down here
RING_BUFFER_SIZE == 6

\* spin budget of the flag lock; 1000000 in the source, scaled down here
SpinBudget == 2

MaxRec == 3         \* number of cromemco_d7a_record calls
MaxCb == 2          \* number of audio callbacks

Chan == 0 .. NUM_CHANNELS - 1
Ports == {1, 3}                 \* cromemco_d7a_out forwards ports 1 and 3 only
\* The inputs; build "flag" interleaves the two threads step by step and
\* gets the smaller sets.
\* written levels (char)
Data == IF build = "flag" THEN {50} ELSE {-100, 50}
\* T-states the CPU runs between two port writes
DeltaT == IF build = "flag" THEN {1, 5, 11} ELSE {1, 5, 10, 11}
\* frames requested by one callback
Frames == IF build = "flag" THEN {0, 2} ELSE {0, 1, 3}
Ratios == {<<1, 2>>}            \* output samples per T-state

---------------------------------------------------------------------------
(* Pure helpers *)

Max(a, b) == IF a > b THEN a ELSE b

Min(a, b) == IF a < b THEN a ELSE b

Abs(a) == IF a < 0 THEN -a ELSE a

\* s is a prefix of t
IsPrefix(s, t) == Len(s) <= Len(t) /\ s = SubSeq(t, 1, Len(s))

---------------------------------------------------------------------------
(* The C type double: IEEE-754 binary64, every operation rounded to the    *)
(* nearest double, ties to the even mantissa.  Infinities, NaN, the sign  *)
(* of zero and subnormal numbers are left out.                            *)

\* natural numbers of any size: little-endian sequences of 15-bit limbs
\* with no zero limb at the top; <<>> is 0
Limb == 2 ^ 15

RECURSIVE NFromInt(_)
NFromInt(n) == IF n = 0 THEN <<>> ELSE <<n % Limb>> \o NFromInt(n \div Limb)

RECURSIVE NToInt(_)
NToInt(a) == IF a = <<>> THEN 0 ELSE a[1] + Limb * NToInt(Tail(a))

RECURSIVE NNorm(_)
NNorm(a) ==
    IF a # <<>> /\ a[Len(a)] = 0 THEN NNorm(SubSeq(a, 1, Len(a) - 1)) ELSE a

NLimb(a, i) == IF i <= Len(a) THEN a[i] ELSE 0

RECURSIVE NAddFrom(_, _, _, _)
NAddFrom(a, b, i, carry) ==
    IF i > Len(a) /\ i > Len(b)
    THEN IF carry = 0 THEN <<>> ELSE <<carry>>
    ELSE LET s == NLimb(a, i) + NLimb(b, i) + carry
         IN  <<s % Limb>> \o NAddFrom(a, b, i + 1, s \div Limb)

NAdd(a, b) == NAddFrom(a, b, 1, 0)

RECURSIVE NSubFrom(_, _, _, _)
NSubFrom(a, b, i, borrow) ==
    IF i > Len(a) THEN <<>>
    ELSE LET s == a[i] - NLimb(b, i) - borrow
         IN  <<IF s < 0 THEN s + Limb ELSE s>>
                 \o NSubFrom(a, b, i + 1, IF s < 0 THEN 1 ELSE 0)

\* a - b for a >= b
NSub(a, b) == NNorm(NSubFrom(a, b, 1, 0))

RECURSIVE NCmpAt(_, _, _)
NCmpAt(a, b, i) ==
    IF i = 0 THEN 0
    ELSE IF a[i] # b[i] THEN (IF a[i] < b[i] THEN -1 ELSE 1)
    ELSE NCmpAt(a, b, i - 1)

\* -1, 0, 1 as a < b, a = b, a > b
NCmp(a, b) ==
    IF Len(a) # Len(b) THEN (IF Len(a) < Len(b) THEN -1 ELSE 1)
    ELSE NCmpAt(a, b, Len(a))

RECURSIVE NMulFrom(_, _, _, _)
NMulFrom(a, k, i, carry) ==
    IF i > Len(a) THEN (IF carry = 0 THEN <<>> ELSE <<carry>>)
    ELSE LET p == a[i] * k + carry
         IN  <<p % Limb>> \o NMulFrom(a, k, i + 1, p \div Limb)

\* a * k for 0 <= k < Limb
NMulSmall(a, k) == IF k = 0 THEN <<>> ELSE NMulFrom(a, k, 1, 0)

RECURSIVE NMul(_, _)
NMul(a, b) ==
    IF a = <<>> \/ b = <<>> THEN <<>>
    ELSE NAdd(NMulSmall(a, b[1]),
              IF Len(b) = 1 THEN <<>> ELSE <<0>> \o NMul(a, Tail(b)))

\* a * 2^s
NShl(a, s) ==
    IF a = <<>> \/ s = 0 THEN a
    ELSE [i \in 1 .. s \div 15 |-> 0] \o NMulSmall(a, 2 ^ (s % 15))

\* a \div 2^s
NShr(a, s) ==
    LET w == s \div 15
        r == s % 15
        b == IF w >= Len(a) THEN <<>> ELSE SubSeq(a, w + 1, Len(a))
    IN  IF s = 0 THEN a
        ELSE NNorm([i \in 1 .. Len(b) |->
                       (b[i] \div 2 ^ r)
                       + (NLimb(b, i + 1) % 2 ^ r) * 2 ^ (15 - r)])

\* bit i of a, bit 0 the lowest
NBit(a, i) == (NLimb(a, i \div 15 + 1) \div 2 ^ (i % 15)) % 2

\* a % 2^s = 0
NLowZero(a, s) ==
    /\ \A i \in 1 .. s \div 15 : NLimb(a, i) = 0
    /\ NLimb(a, s \div 15 + 1) % 2 ^ (s % 15) = 0

\* the number of bits of a limb x # 0
LimbBits(x) ==
    IF x < 128
    THEN IF x < 8 THEN (IF x < 2 THEN 1 ELSE IF x < 4 THEN 2 ELSE 3)
         ELSE IF x < 32 THEN (IF x < 16 THEN 4 ELSE 5)
         ELSE IF x < 64 THEN 6 ELSE 7
    ELSE IF x < 2048
         THEN IF x < 512 THEN (IF x < 256 THEN 8 ELSE 9)
              ELSE IF x < 1024 THEN 10 ELSE 11
         ELSE IF x < 8192 THEN (IF x < 4096 THEN 12 ELSE 13)
         ELSE IF x < 16384 THEN 14 ELSE 15

\* the number of bits of a
NBits(a) ==
    IF a = <<>> THEN 0 ELSE 15 * (Len(a) - 1) + LimbBits(a[Len(a)])

\* the number of zero bits at the bottom of a # 0
RECURSIVE NTrailing(_)
NTrailing(a) ==
    IF a[1] = 0 THEN 15 + NTrailing(Tail(a))
    ELSE CHOOSE t \in 0 .. 14 : a[1] % 2 ^ (t + 1) = 2 ^ t

\* the estimate est of a digit, which is at most 2 too large, corrected
NDigitFrom(r, d, est) ==
    IF NCmp(NMulSmall(d, est), r) <= 0 THEN est
    ELSE IF NCmp(NMulSmall(d, est - 1), r) <= 0 THEN est - 1
    ELSE est - 2

\* the estimate of a digit from the two top limbs of r and the top limb of d
NEstimate(top, dn) == IF top \div dn >= Limb THEN Limb - 1 ELSE top \div dn

\* one digit of a long division: the largest g with g * d <= r, for
\* r < d * Limb and a d whose top limb is at least Limb / 2
NDigit(r, d) ==
    NDigitFrom(r, d, NEstimate(NLimb(r, Len(d) + 1) * Limb + NLimb(r, Len(d)),
                               d[Len(d)]))

\* long division of a by d from limb i down, q and r the quotient and the
\* remainder so far: cur is the remainder with limb i of a below it, g the
\* digit for it and left what is left of cur
RECURSIVE NDivFrom(_, _, _, _, _)
NDivFrom(a, d, i, q, r) ==
    IF i = 0 THEN [q |-> q, r |-> r]
    ELSE LET cur == NNorm(<<a[i]>> \o r)
             g == NDigit(cur, d)
             left == NSub(cur, NMulSmall(d, g))
         IN  IF NCmp(left, d) < 0
             THEN NDivFrom(a, d, i - 1, <<g>> \o q, left)
             ELSE [q |-> <<>>, r |-> left]

\* the shift that brings the top limb of d to at least Limb / 2
NDivShift(d) == 15 - (NBits(d) - 15 * (Len(d) - 1))

\* q = a \div d and whether a % d = 0, for d # 0
NDivMod(a, d) ==
    LET Out(t) == [q |-> NNorm(t.q), exact |-> t.r = <<>>]
    IN  Out(NDivFrom(NShl(a, NDivShift(d)), NShl(d, NDivShift(d)),
                     Len(NShl(a, NDivShift(d))), <<>>, <<>>))

\* a double is 0 or (-1)^neg * m * 2^e with m odd and below 2^53
DZero == [neg |-> FALSE, m |-> <<>>, e |-> 0]

\* the double of value n * 2^e, n below 2^53
DExact(neg, n, e) ==
    IF n = <<>> THEN DZero
    ELSE [neg |-> neg, m |-> NShr(n, NTrailing(n)), e |-> e + NTrailing(n)]

\* q = n \div 2^s, one more when the bits cut off are more than half a unit,
\* or half a unit and q is odd
NRoundUp(n, s, q) ==
    IF NBit(n, s - 1) = 1 /\ (~NLowZero(n, s - 1) \/ NBit(q, 0) = 1)
    THEN NAdd(q, <<1>>)
    ELSE q

\* n cut to its top 53 bits, s the number of bits cut off
NRound(n, s) == IF s <= 0 THEN n ELSE NRoundUp(n, s, NShr(n, s))

\* the double nearest to n * 2^e, ties to the even mantissa
DRound(neg, n, e) ==
    DExact(neg, NRound(n, NBits(n) - 53), e + Max(0, NBits(n) - 53))

\* (double)k for an integer k
DFromInt(k) == DExact(k < 0, NFromInt(IF k < 0 THEN -k ELSE k), 0)

DNeg(x) == IF x.m = <<>> THEN x ELSE [x EXCEPT !.neg = ~@]

\* the double nearest to the sum of a * 2^e, negative iff xn, and b * 2^e,
\* negative iff yn
DSum(xn, a, yn, b, e) ==
    DRound(IF xn = yn \/ NCmp(a, b) >= 0 THEN xn ELSE yn,
           IF xn = yn THEN NAdd(a, b)
           ELSE IF NCmp(a, b) >= 0 THEN NSub(a, b) ELSE NSub(b, a),
           e)

\* x + y
DAdd(x, y) ==
    IF x.m = <<>> THEN y
    ELSE IF y.m = <<>> THEN x
    ELSE DSum(x.neg, NShl(x.m, x.e - Min(x.e, y.e)),
              y.neg, NShl(y.m, y.e - Min(x.e, y.e)), Min(x.e, y.e))

\* x - y
DSub(x, y) == DAdd(x, DNeg(y))

\* x * y
DMul(x, y) ==
    IF x.m = <<>> \/ y.m = <<>> THEN DZero
    ELSE DRound(x.neg # y.neg, NMul(x.m, y.m), x.e + y.e)

\* the double nearest to a quotient times 2^(e + 1): s.q is the quotient
\* cut to an integer of at least 55 bits, and a bit below it tells whether
\* anything was cut off
DSticky(neg, s, e) ==
    IF s.exact THEN DRound(neg, NShl(s.q, 1), e - 1)
    ELSE DRound(neg, NAdd(NShl(s.q, 1), <<1>>), e - 1)

DQuotientBy(neg, n, d, e, k) == DSticky(neg, NDivMod(NShl(n, k), d), e - k)

\* the double nearest to n / d for naturals n and d # 0, times 2^e; a
\* quotient by 1 is exact
DQuotient(neg, n, d, e) ==
    IF n = <<>> THEN DZero
    ELSE IF d = <<1>> THEN DExact(neg, n, e)
    ELSE DQuotientBy(neg, n, d, e, Max(0, 55 + NBits(d) - NBits(n)))

\* x / y, y # 0
DDiv(x, y) == DQuotient(x.neg # y.neg, x.m, y.m, x.e - y.e)

\* -1, 0, 1 as |x| < |y|, |x| = |y|, |x| > |y|
DCmpAbs(x, y) ==
    LET e == IF x.e < y.e THEN x.e ELSE y.e
    IN  NCmp(NShl(x.m, x.e - e), NShl(y.m, y.e - e))

\* x < y
DLess(x, y) ==
    LET Less(c) == IF x.neg THEN c > 0 ELSE c < 0
    IN  IF x.neg # y.neg THEN x.neg ELSE Less(DCmpAbs(x, y))

\* (int)x: the integer part of x, toward zero
DTrunc(x) ==
    LET Signed(n) == IF x.neg THEN -n ELSE n
    IN  Signed(NToInt(IF x.e >= 0 THEN NShl(x.m, x.e) ELSE NShr(x.m, -x.e)))

DOne == DFromInt(1)

\* the digits d[i] .. d[j] of a decimal literal, at most four, as a number
RECURSIVE DecInt(_, _, _)
DecInt(d, i, j) == IF j < i THEN 0 ELSE 10 * DecInt(d, i, j - 1) + d[j]

\* the digits d[1] .. d[k] of a decimal literal 0.d1 d2 ..., as a natural
RECURSIVE DecNat(_, _)
DecNat(d, k) ==
    IF k <= 4 THEN NFromInt(DecInt(d, 1, k))
    ELSE NAdd(NMulSmall(DecNat(d, k - 4), 10000),
              NFromInt(DecInt(d, k - 3, k)))

\* 10^k
RECURSIVE NPow10(_)
NPow10(k) ==
    IF k <= 4 THEN NFromInt(10 ^ k) ELSE NMulSmall(NPow10(k - 4), 10000)

\* the double a decimal literal 0.d1 d2 ... stands for: the nearest one
Dec(digits) ==
    DQuotient(FALSE, DecNat(digits, Len(digits)), NPow10(Len(digits)), 0)

\* the same with a sign in front
SignedDec(neg, digits) ==
    DQuotient(neg, DecNat(digits, Len(digits)), NPow10(Len(digits)), 0)

\* an array of doubles zeroed by memset and not written since; an array is
\* kept as the function from the indexes written to the values they hold
ZeroArray == <<>>

\* a[k]
ArrayAt(a, k) == IF k \in DOMAIN a THEN a[k] ELSE DZero

\* a[k] = v
ArrayPut(a, k, v) ==
    [j \in DOMAIN a \cup {k} |-> IF j = k THEN v ELSE a[j]]

---------------------------------------------------------------------------
(* cromemco_d7a_record: the pieces of the computation *)

\* lines 393-400: port 1 -> channel 0, port 3 -> channel 1, anything else 0
Channel(port) == IF port = 3 THEN 1 ELSE 0

\* line 390: ratio = d7a_sample_rate / (f_value * 1000000.0) * d7a_sync_adjust
Ratio64(r) == DMul(DDiv(DFromInt(r[1]), DFromInt(r[2])), DOne)

\* lines 406-408: last_time[c] == 0 means "no earlier write"; the T-states
\* current_time - last_time[c]
Elapsed(c, now) ==
    LET lt == IF last_time[c] = 0 THEN now ELSE last_time[c]
    IN  now - lt

\* line 412: timing_error[c] >= 1.0
CarryAt(te) == ~DLess(te, DOne)

\* lines 406-409: diff = (current_time - last_time[c]) * ratio
TimingDiff(c, now) == DMul(DFromInt(Elapsed(c, now)), Ratio64(ratio))

\* lines 412-415: the carry.  whole is count and drift is timing_error[c]
\* as line 415 leaves them
TimingCarry(count, te) ==
    IF CarryAt(te) THEN [whole |-> count + 1, drift |-> DSub(te, DOne)]
    ELSE [whole |-> count, drift |-> te]

\* line 411: timing_error[c] += diff - count
TimingError(c, diff, count) ==
    TimingCarry(count, DAdd(timing_error[c], DSub(diff, DFromInt(count))))

\* line 410: count = diff
TimingCount(c, diff) == TimingError(c, diff, DTrunc(diff))

\* lines 409-415
Timing(c, now) == TimingCount(c, TimingDiff(c, now))

\* a producer that never sees an underflow
IsUnderflowNever(occupied) == FALSE

\* an underflow test that is off by one
IsUnderflowOffByOne(occupied) == occupied <= 1

\* line 433: the consumer has emptied the channel
IsUnderflow(occupied) == occupied = 0

\* a producer that checks the free space against the capacity alone
IsOverflowIgnoresCount(count, occupied) == count > RING_BUFFER_SIZE

\* line 435: the write does not fit into the free space
IsOverflow(count, occupied) == count > RING_BUFFER_SIZE - occupied

\* a clamp that is off by one
ClampOffByOne(count, occupied) == RING_BUFFER_SIZE - occupied - 1

\* line 437: drop new data
Clamp(count, occupied) == RING_BUFFER_SIZE - occupied

\* line 441: noticeable dropout
IsDropout(count) == count > 5

\* a conversion that rounds to the nearest level instead of truncating
CharOfRounded(level) ==
    LET half == DDiv(DOne, DFromInt(2))
    IN  IF level.neg THEN -DTrunc(DAdd(DNeg(level), half))
        ELSE DTrunc(DAdd(level, half))

\* a store that overwrites the newest sample instead of advancing end
StoreInPlace(ch, s) == [ch EXCEPT !.sample[ch.end] = s]

\* a producer that forgets the written level
SetLastDataNever(port, data) == last_data

\* line 464: slope = ((double)data - (double)last_data[c]) / (double)count
Slope(count, data, last) ==
    DDiv(DSub(DFromInt(data), DFromInt(last)), DFromInt(count))

\* lines 463-470: current_level before the loop and after each of its next
\* k passes (current_level += slope)
RECURSIVE Levels(_, _, _)
Levels(level, slope, k) ==
    IF k = 0 THEN <<level>>
    ELSE <<level>> \o Levels(DAdd(level, slope), slope, k - 1)

\* lines 463-470: current_level before the loop and after each pass
Ramp(count, data, last) ==
    Levels(DFromInt(last), Slope(count, data, last), count)

\* lines 466 and 473: (char)current_level
CharOf(level) == DTrunc(level)

\* lines 447-495: the samples one call stores, in order.  count == 1 stores
\* the written level; count < 5 stores (char)current_level for
\* current_level = last, last + slope, ...; otherwise silence.
Samples(count, data, last) ==
    IF count = 1 THEN <<data>>
    ELSE IF count < 5
         THEN LET ramp == Ramp(count, data, last)
              IN  [k \in 1 .. count |-> CharOf(ramp[k])]
         ELSE [k \in 1 .. count |-> 0]

\* end++ / start++ with wrap-around (lines 449-451, 156-158)
Advance(i) == IF i + 1 >= RING_BUFFER_SIZE THEN 0 ELSE i + 1

\* lines 449-451: store one sample at end and advance end
Store(ch, s) == [ch EXCEPT !.sample[ch.end] = s, !.end = Advance(ch.end)]

RECURSIVE StoreAll(_, _)
StoreAll(ch, s) ==
    IF s = <<>> THEN ch ELSE StoreAll(Store(ch, Head(s)), Tail(s))

\* lines 505-510: remember the written level
SetLastData(port, data) ==
    IF port = 1 THEN [last_data EXCEPT ![0] = data]
                ELSE [last_data EXCEPT ![1] = data]

---------------------------------------------------------------------------
(* the audio callbacks: the pieces of the computation *)

\* lines 125-129 / 235-237: the fullest channel
MaxCount(chs) ==
    LET m == CHOOSE c \in Chan : \A d \in Chan : chs[c].count >= chs[d].count
    IN  Max(0, chs[m].count)

\* a consumer that forgets start++
PopKeepsStart(ch) == [ch EXCEPT !.count = ch.count - 1]

\* a consumer that forgets count--
PopKeepsCount(ch) == [ch EXCEPT !.start = Advance(ch.start)]

\* lines 154-158 / 257-261: take one sample from the head of a channel
Pop(ch) == [ch EXCEPT !.count = ch.count - 1, !.start = Advance(ch.start)]

Silence(kind) == [val |-> 0, kind |-> kind]
Sample(v) == [val |-> v, kind |-> "pop"]

\* lines 149-159 / 252-262: one output slot of channel c; cs is the
\* consumer's view [channel, out, popped]
Slot(cs, c) ==
    IF cs.channel[c].count = 0
    THEN [cs EXCEPT !.out = Append(@, Silence("empty"))]
    ELSE LET v == cs.channel[c].sample[cs.channel[c].start]
         IN  [channel |-> [cs.channel EXCEPT ![c] = Pop(@)],
              out |-> Append(cs.out, Sample(v)),
              popped |-> [cs.popped EXCEPT ![c] = Append(@, v)]]

\* lines 148-160 / 251-263: for (c=0; c<NUM_CHANNELS; c++) one slot each
RECURSIVE Frame(_, _)
Frame(cs, c) == IF c >= NUM_CHANNELS THEN cs ELSE Frame(Slot(cs, c), c + 1)

\* lines 147-161: while (i<len) one frame; i counts bytes
RECURSIVE SdlCopy(_, _, _)
SdlCopy(cs, i, len) ==
    IF i >= len THEN cs ELSE SdlCopy(Frame(cs, 0), i + NUM_CHANNELS, len)

\* line 137: gap = len - (max * NUM_CHANNELS)
SdlGap(len, max) == len - max * NUM_CHANNELS

\* lines 138-142: while (i<gap) one frame of silence; the value of i afterwards
SdlPadded(gap) ==
    IF gap <= 0 THEN 0
    ELSE ((gap + NUM_CHANNELS - 1) \div NUM_CHANNELS) * NUM_CHANNELS

\* lines 139-141 / 242-244: n more slots of silence in front of the samples;
\* a slot is marked "pad" when its channel holds samples, "empty" otherwise
RECURSIVE Pad(_, _, _)
Pad(out, n, chs) ==
    IF n <= 0 THEN out
    ELSE LET c == Len(out) % NUM_CHANNELS
             kind == IF chs[c].count = 0 THEN "empty" ELSE "pad"
         IN  Pad(Append(out, Silence(kind)), n - 1, chs)

\* the buffer the sink hands in: n slots nobody has written yet
Unwritten(n) == [k \in 1 .. n |-> [val |-> 0, kind |-> "unwritten"]]

---------------------------------------------------------------------------
(* D+7A recording (wave_buffer) and device life cycle: the pieces          *)

\* cromemco-d+7a.c line 83: wave_buffer is NULL until init allocates it
\* (buffer "null"); free leaves the pointer dangling (buffer "freed").
\* sample[c] holds wave_buffer[i].sample[c] of the entries 0, 1, ... written
\* so far, status[i] is wave_buffer[i].status (-1: not written since
\* malloc).  bad and wild are history: the buffer was accessed while it was
\* not allocated; a status was stored at index -1.  DebugData is 40 bytes
\* with status at offset 32, so that store lands 8 bytes before the buffer,
\* on the size field of malloc's chunk header, which it overwrites.
WaveOff ==
    [buffer |-> "null", limit |-> 0, index |-> [c \in Chan |-> 0],
     sample |-> [c \in Chan |-> <<>>], status |-> <<>>,
     bad |-> FALSE, wild |-> FALSE]

\* cromemco_d7a_init lines 534-539: malloc of d7a_recording_limit entries
WaveAlloc(w, got) ==
    IF w.limit > 0
    THEN [w EXCEPT !.buffer = got,
                   !.status = [i \in 0 .. w.limit - 1 |-> -1]]
    ELSE w

\* if (wave_buffer): the pointer is not NULL
WaveOn(w) == w.buffer # "null"

\* lines 403, 426, 438, 442: an access to an entry of wave_buffer
WaveTouch(w) ==
    IF WaveOn(w) THEN [w EXCEPT !.bad = @ \/ w.buffer # "alloc"] ELSE w

\* lines 458, 476, 492: if (wave_index[c] < d7a_recording_limit - 1) wave_index[c]++
WaveNext(i, limit) == IF i < limit - 1 THEN i + 1 ELSE i

\* lines 403, 426, 438, 442: if (wave_buffer) wave_buffer[i].status = v.
\* At index -1 the store overwrites the size field of malloc's chunk header
\* (wild): the recording is untouched, free is not (D7aOffFree)
WaveStatus(w, i, v) ==
    IF ~WaveOn(w) THEN w
    ELSE IF i \in 0 .. w.limit - 1
         THEN [WaveTouch(w) EXCEPT !.status[i] = v]
         ELSE [WaveTouch(w) EXCEPT !.wild = TRUE]

\* lines 455, 473, 489: the levels one call records, in order.  count == 1
\* records the written level; count < 5 records (char)current_level after
\* current_level += slope; otherwise silence.
Recorded(count, data, last) ==
    IF count = 1 THEN <<data>>
    ELSE IF count < 5
         THEN LET ramp == Ramp(count, data, last)
              IN  [k \in 1 .. count |-> CharOf(ramp[k + 1])]
         ELSE [k \in 1 .. count |-> 0]

\* lines 455 and 458 (473 and 476, 489 and 492): level v of channel c
\* recorded in the entry wave_index[c]
WaveSample(w, c, v) ==
    LET i == w.index[c]
    IN  [WaveTouch(w) EXCEPT
            !.sample[c] = IF i < Len(@) THEN [@ EXCEPT ![i + 1] = v]
                          ELSE Append(@, v),
            !.index[c] = WaveNext(i, w.limit)]

\* lines 454-459, 472-477, 488-493: the levels s of channel c recorded
RECURSIVE WaveStored(_, _, _)
WaveStored(w, c, s) ==
    IF s = <<>> \/ ~WaveOn(w) THEN w
    ELSE WaveStored(WaveSample(w, c, Head(s)), c, Tail(s))

\* lines 438 and 442: an overflow or a dropout tags the entry before the
\* one at wave_index[c]
WaveTagged(w, c, ovf, drop) ==
    IF ovf THEN WaveStatus(w, w.index[c] - 1, 1)
    ELSE IF drop THEN WaveStatus(w, w.index[c] - 1, 2)
    ELSE w

\* no export made
NoHeader ==
    [chunk_size |-> 0, num_channels |-> 0, sample_rate |-> 0, byte_rate |-> 0,
     block_align |-> 0, bits_per_sample |-> 0, subchunk2_size |-> 0]

\* cromemco_d7a_off lines 623-636 and ads_noisemaker_off lines 845-860: the
\* header of the exported file; index is max_index or sound_board.index,
\* capacity the recording limit
WavHeader(rate, index, capacity) ==
    [chunk_size |-> index * 4 + 40, num_channels |-> 2,
     sample_rate |-> rate, byte_rate |-> rate * 4, block_align |-> 4,
     bits_per_sample |-> 16, subchunk2_size |-> index * 4]

\* the D+7A after cromemco_d7a_init with recording switched off
\* (d7a_recording_limit 0) and no sound file configured
D7aRunning ==
    /\ wave = WaveOff
    /\ d7a = [pc |-> "run", sink |-> TRUE, file |-> "none", rate |-> 22050,
              header |-> NoHeader]

---------------------------------------------------------------------------
(* ADS Noisemaker (src/iodevices/ads-noisemaker.c): the state              *)

TONE_CHANNELS == 3
DECIMATE_FACTOR == 8
FIR_SIZE == 192

\* ads_noisemaker_init line 799: the chips' clock in Hz
ClockRate == 2000000

\* enum, line 121: the length of the DC filter's delay line
DC_FILTER_SIZE == 1024

Chips == {1, 2}

\* struct tone_channel, zeroed
ZeroChannel ==
    [tone_period |-> 0, tone_counter |-> 0, tone |-> 0, t_off |-> 0,
     n_off |-> 0, e_on |-> 0, volume |-> 0]

\* struct interpolator, zeroed
ZeroInterpolator ==
    [c |-> [i \in 0 .. 3 |-> DZero], y |-> [i \in 0 .. 3 |-> DZero]]

\* struct ayumi, zeroed (static storage; memset in ayumi_configure).  The
\* doubles step, x, interpolator, fir, dc and sample hold what the code
\* holds; dac_table is the pointer ay->dac_table, "null" until line 315
\* makes it point to AY_dac_table ("AY").  out[i] keeps the local out of
\* update_mixer for channel i, the index of its latest table lookup.
ZeroChip ==
    [channels |-> [i \in 0 .. TONE_CHANNELS - 1 |-> ZeroChannel],
     noise_period |-> 0, noise_counter |-> 0, noise |-> 0,
     envelope_counter |-> 0, envelope_period |-> 0, envelope_shape |-> 0,
     envelope_segment |-> 0, envelope |-> 0, dac_table |-> "null",
     step |-> DZero, x |-> DZero, interpolator |-> ZeroInterpolator,
     fir |-> ZeroArray, fir_index |-> 0,
     dc |-> [sum |-> DZero, delay |-> ZeroArray],
     dc_index |-> 0, sample |-> DZero,
     out |-> [i \in 0 .. TONE_CHANNELS - 1 |-> 0]]

\* the audio thread in no call, and its locals: of sdl_audio_callback frames
\* (len / 4), n (the frames made, i / 4) and p (the chip worked on); of
\* ayumi_process i and base (fir is &ay->fir[base]); of update_mixer ch (its
\* i), noise, envelope and out; reg is a value read from the chip or the
\* board and used by the step that follows, shape an envelope_shape read for
\* a look-up in Envelopes, fn the segment function called, buf a buffer
\* pointer read.  pc names the access of the chip or the board that the
\* thread makes next: every step makes one access of a location that the
\* CPU thread writes, together with what the thread does on its own data
\* before the next one.
CbIdle ==
    [pc |-> "idle", frames |-> 0, n |-> 0, p |-> 0, i |-> 0, base |-> 0,
     ch |-> 0, bit0x3 |-> 0, noise |-> 0, envelope |-> 0, out |-> 0,
     reg |-> 0, shape |-> 0, fn |-> "none", buf |-> "null"]

\* the CPU thread in psg_out: pc "store" while a data write to chip p is
\* between two of its stores, r and data being the arguments register_select
\* and data of the call and k the number of stores made; in the
\* reset_segment of line 550 pc is that function's and shape the
\* envelope_shape it has read
OutIdle == [pc |-> "idle", p |-> 0, r |-> 0, data |-> 0, k |-> 0, shape |-> 0]

\* struct ads_noisemaker sound_board and the device around it, before
\* ads_noisemaker_init: buffer is sound_board.buffer ("null", "alloc" or
\* "freed"), size and index its size and index, limit
\* noisemaker_recording_limit, rate noisemaker_sample_rate, file
\* noisemaker_soundfile ("none", or what fopen will do: "ok" / "fail"),
\* header and written the header and the number of frames put into the file;
\* history: outs and cbs count port writes and callbacks, stored the frames
\* a callback has stored, bad tells of a store through a buffer that is
\* "null" or "freed", raced of a register write made during a callback;
\* out is the port write the CPU thread is making
NmOff ==
    [pc |-> "off", sink |-> FALSE, buffer |-> "null", size |-> 0, index |-> 0,
     limit |-> 0, file |-> "none", rate |-> 44100, header |-> NoHeader,
     written |-> 0, cb |-> CbIdle, out |-> OutIdle, outs |-> 0, cbs |-> 0,
     stored |-> 0, bad |-> "no", raced |-> FALSE, k |-> 0, up |-> TRUE]

\* nothing observed yet
ObsNone == [of |-> "nothing"]

\* the Noisemaker untouched
NmIdle ==
    /\ psg = [p \in Chips |-> ZeroChip]
    /\ sel = [p \in Chips |-> 0]
    /\ nm = NmOff
    /\ obs = ObsNone

---------------------------------------------------------------------------
(* AY-3-8910 emulation: the generators, as the code computes them          *)

\* a tone generator that compares with > instead of >=
update_tone_late(ay, index) ==
    LET ch == ay.channels[index]
        counter == ch.tone_counter + 1
    IN  IF counter > ch.tone_period
        THEN [ay EXCEPT !.channels[index].tone_counter = 0,
                        !.channels[index].tone = (ch.tone + 1) % 2]
        ELSE [ay EXCEPT !.channels[index].tone_counter = counter]

\* lines 216-224: update_tone; the value returned is the channel's new tone
update_tone(ay, index) ==
    LET ch == ay.channels[index]
        counter == ch.tone_counter + 1
    IN  IF counter >= ch.tone_period
        THEN [ay EXCEPT !.channels[index].tone_counter = 0,
                        !.channels[index].tone = (ch.tone + 1) % 2]
        ELSE [ay EXCEPT !.channels[index].tone_counter = counter]

\* a noise generator whose feedback taps bits 0 and 2
update_noise_tap2(ay) ==
    LET counter == ay.noise_counter + 1
        bit0x2 == ((ay.noise % 2) + ((ay.noise \div 4) % 2)) % 2
    IN  IF counter >= ay.noise_period * 2
        THEN [ay EXCEPT !.noise_counter = 0,
                        !.noise = (ay.noise \div 2) + bit0x2 * 65536]
        ELSE [ay EXCEPT !.noise_counter = counter]

\* a shift register without its feedback
update_noise_no_feedback(ay) ==
    LET counter == ay.noise_counter + 1
    IN  IF counter >= ay.noise_period * 2
        THEN [ay EXCEPT !.noise_counter = 0, !.noise = ay.noise \div 2]
        ELSE [ay EXCEPT !.noise_counter = counter]

\* lines 226-235: update_noise; the value returned is bit 0 of the new noise
update_noise(ay) ==
    LET counter == ay.noise_counter + 1
        bit0x3 == ((ay.noise % 2) + ((ay.noise \div 8) % 2)) % 2
    IN  IF counter >= ay.noise_period * 2
        THEN [ay EXCEPT !.noise_counter = 0,
                        !.noise = (ay.noise \div 2) + bit0x3 * 65536]
        ELSE [ay EXCEPT !.noise_counter = counter]


\* line 234: return ay->noise & 1
NoiseOutput(ay) == ay.noise % 2

\* lines 261-278: Envelopes[shape][segment], by the name of the function
Envelopes(shape, segment) ==
    LET first == IF shape \in {4, 5, 6, 7, 12, 13, 14, 15}
                 THEN "slide_up" ELSE "slide_down"
        second == CASE shape = 8 -> "slide_down"
                    [] shape = 10 -> "slide_up"
                    [] shape = 11 -> "hold_top"
                    [] shape = 12 -> "slide_up"
                    [] shape = 13 -> "hold_top"
                    [] shape = 14 -> "slide_down"
                    [] OTHER -> "hold_bottom"
    IN  IF segment = 0 THEN first ELSE second

\* lines 280-287: reset_segment, one step of it made by a thread with the
\* locals t; ret is where its caller goes on.  Each step reads or writes
\* one member of the chip: "reset" and "down" evaluate the first operand of
\* line 281's condition, "reset2" and "hold" the second
reset_segment(ay, t, ret) ==
    CASE t.pc = "reset" ->
           [ay |-> ay,
            t |-> [t EXCEPT !.pc = "down", !.shape = ay.envelope_shape]]
      [] t.pc = "down" ->
           [ay |-> ay,
            t |-> [t EXCEPT !.pc = IF Envelopes(t.shape, ay.envelope_segment)
                                         = "slide_down"
                                    THEN "top" ELSE "reset2",
                            !.shape = 0]]
      [] t.pc = "reset2" ->
           [ay |-> ay,
            t |-> [t EXCEPT !.pc = "hold", !.shape = ay.envelope_shape]]
      [] t.pc = "hold" ->
           [ay |-> ay,
            t |-> [t EXCEPT !.pc = IF Envelopes(t.shape, ay.envelope_segment)
                                         = "hold_top"
                                    THEN "top" ELSE "bottom",
                            !.shape = 0]]
      [] t.pc = "top" ->
           [ay |-> [ay EXCEPT !.envelope = 31], t |-> [t EXCEPT !.pc = ret]]
      [] OTHER ->
           [ay |-> [ay EXCEPT !.envelope = 0], t |-> [t EXCEPT !.pc = ret]]

\* the values of pc inside reset_segment
ResetPcs == {"reset", "down", "reset2", "hold", "top", "bottom"}

\* lines 237-251: a slide by d, one step of it; over is the condition of
\* line 239 or 247 on the level as it is now.  "slide" and "slid" are the
\* read and the write of envelope += d, "over" the test, "flip" and
\* "flipped" the read and the write of envelope_segment ^= 1, then
\* reset_segment
Slide(ay, t, d, over) ==
    CASE t.pc = "slide" ->
           [ay |-> ay, t |-> [t EXCEPT !.pc = "slid", !.reg = ay.envelope]]
      [] t.pc = "slid" ->
           [ay |-> [ay EXCEPT !.envelope = t.reg + d],
            t |-> [t EXCEPT !.pc = "over", !.reg = 0]]
      [] t.pc = "over" ->
           [ay |-> ay,
            t |-> [t EXCEPT !.pc = IF over THEN "flip" ELSE "level"]]
      [] t.pc = "flip" ->
           [ay |-> ay,
            t |-> [t EXCEPT !.pc = "flipped", !.reg = ay.envelope_segment]]
      [] t.pc = "flipped" ->
           [ay |-> [ay EXCEPT !.envelope_segment = (t.reg + 1) % 2],
            t |-> [t EXCEPT !.pc = "reset", !.reg = 0]]
      [] OTHER -> reset_segment(ay, t, "level")

\* the values of pc inside slide_up and slide_down
SlidePcs == {"slide", "slid", "over", "flip", "flipped"} \cup ResetPcs

\* lines 237-243: slide_up
slide_up(ay, t) == Slide(ay, t, 1, ay.envelope > 31)

\* a slide_down without its lower bound
slide_down_unbounded(ay, t) == Slide(ay, t, -1, FALSE)

\* lines 245-251: slide_down
slide_down(ay, t) == Slide(ay, t, -1, ay.envelope < 0)

\* line 293: the call through the pointer fetched from Envelopes; hold_top
\* and hold_bottom (lines 253-259) return at once
Called(t, fn) ==
    IF fn \in {"slide_up", "slide_down"}
    THEN [t EXCEPT !.pc = "slide", !.fn = fn, !.shape = 0]
    ELSE [t EXCEPT !.pc = "level", !.shape = 0]

\* the step of the function called at line 293
EnvelopeStep(ay, t) ==
    IF t.fn = "slide_up" THEN slide_up(ay, t) ELSE slide_down(ay, t)

\* the function has returned: fn is forgotten
CallEnded(r) ==
    IF r.t.pc = "level" THEN [ay |-> r.ay, t |-> [r.t EXCEPT !.fn = "none"]]
    ELSE r

\* lines 289-296: update_envelope, one step of it.  "counter" and "count"
\* are the read and the write of line 290, "reached" and "period" the two
\* reads of line 291, "restart" line 292, "shape" and "segment" the two
\* reads of line 293 that fetch the function, "level" the read of line 295,
\* whose value update_mixer keeps in envelope
update_envelope(ay, t) ==
    CASE t.pc = "counter" ->
           [ay |-> ay,
            t |-> [t EXCEPT !.pc = "count", !.reg = ay.envelope_counter]]
      [] t.pc = "count" ->
           [ay |-> [ay EXCEPT !.envelope_counter = t.reg + 1],
            t |-> [t EXCEPT !.pc = "reached", !.reg = 0]]
      [] t.pc = "reached" ->
           [ay |-> ay,
            t |-> [t EXCEPT !.pc = "period", !.reg = ay.envelope_counter]]
      [] t.pc = "period" ->
           [ay |-> ay,
            t |-> [t EXCEPT !.pc = IF t.reg >= ay.envelope_period
                                    THEN "restart" ELSE "level",
                            !.reg = 0]]
      [] t.pc = "restart" ->
           [ay |-> [ay EXCEPT !.envelope_counter = 0],
            t |-> [t EXCEPT !.pc = "shape"]]
      [] t.pc = "shape" ->
           [ay |-> ay,
            t |-> [t EXCEPT !.pc = "segment", !.shape = ay.envelope_shape]]
      [] t.pc = "segment" ->
           [ay |-> ay,
            t |-> Called(t, Envelopes(t.shape, ay.envelope_segment))]
      [] t.pc = "level" ->
           [ay |-> ay, t |-> [t EXCEPT !.pc = "zero", !.envelope = ay.envelope]]
      [] OTHER -> CallEnded(EnvelopeStep(ay, t))

\* the values of pc inside update_envelope
EnvelopePcs ==
    {"counter", "count", "reached", "period", "restart", "shape", "segment",
     "level"} \cup SlidePcs

\* lines 176-193: the digits after "0." of the literals of AY_dac_table but
\* the last two
DacDigits ==
    <<<<0>>,
      <<0>>,
      <<0, 0, 9, 9, 9, 4, 6, 5, 9, 3, 4, 2, 3, 4>>,
      <<0, 0, 9, 9, 9, 4, 6, 5, 9, 3, 4, 2, 3, 4>>,
      <<0, 1, 4, 4, 5, 0, 2, 9, 3, 7, 3, 6, 2>>,
      <<0, 1, 4, 4, 5, 0, 2, 9, 3, 7, 3, 6, 2>>,
      <<0, 2, 1, 0, 5, 7, 4, 5, 0, 2, 1, 7, 4>>,
      <<0, 2, 1, 0, 5, 7, 4, 5, 0, 2, 1, 7, 4>>,
      <<0, 3, 0, 7, 0, 1, 1, 5, 2, 0, 5, 6, 2>>,
      <<0, 3, 0, 7, 0, 1, 1, 5, 2, 0, 5, 6, 2>>,
      <<0, 4, 5, 5, 4, 8, 1, 8, 0, 3, 6, 1, 6>>,
      <<0, 4, 5, 5, 4, 8, 1, 8, 0, 3, 6, 1, 6>>,
      <<0, 6, 4, 4, 9, 9, 8, 8, 5, 5, 5, 7, 3>>,
      <<0, 6, 4, 4, 9, 9, 8, 8, 5, 5, 5, 7, 3>>,
      <<1, 0, 7, 3, 6, 2, 4, 7, 8, 0, 6, 5>>,
      <<1, 0, 7, 3, 6, 2, 4, 7, 8, 0, 6, 5>>,
      <<1, 2, 6, 5, 8, 8, 8, 4, 5, 6, 5, 5>>,
      <<1, 2, 6, 5, 8, 8, 8, 4, 5, 6, 5, 5>>,
      <<2, 0, 4, 9, 8, 9, 7, 0, 0, 1, 6>>,
      <<2, 0, 4, 9, 8, 9, 7, 0, 0, 1, 6>>,
      <<2, 9, 2, 2, 1, 0, 2, 6, 9, 3, 2, 2>>,
      <<2, 9, 2, 2, 1, 0, 2, 6, 9, 3, 2, 2>>,
      <<3, 7, 2, 8, 3, 8, 9, 4, 1, 0, 2, 4>>,
      <<3, 7, 2, 8, 3, 8, 9, 4, 1, 0, 2, 4>>,
      <<4, 9, 2, 5, 3, 0, 7, 0, 8, 7, 8, 2>>,
      <<4, 9, 2, 5, 3, 0, 7, 0, 8, 7, 8, 2>>,
      <<6, 3, 5, 3, 2, 4, 6, 3, 5, 6, 9, 1>>,
      <<6, 3, 5, 3, 2, 4, 6, 3, 5, 6, 9, 1>>,
      <<8, 0, 5, 5, 8, 4, 8, 0, 2, 0, 1, 4>>,
      <<8, 0, 5, 5, 8, 4, 8, 0, 2, 0, 1, 4>>>>

\* lines 176-193: AY_dac_table, 16 levels each listed twice, the last two
\* entries 1.0; the entry of C index i is AY_dac_table[i + 1]
AY_dac_table ==
    [k \in 1 .. Len(DacDigits) |-> Dec(DacDigits[k])] \o <<DOne, DOne>>

\* ay->dac_table[out], line 307; the table has 32 entries
DacAt(out) ==
    LET At(table) == IF out \in 0 .. Len(table) - 1 THEN table[out + 1]
                     ELSE DZero
    IN  At(AY_dac_table)

\* a | b and a & b on values 0 and 1
Or1(a, b) == IF a = 1 \/ b = 1 THEN 1 ELSE 0
And1(a, b) == IF a = 1 /\ b = 1 THEN 1 ELSE 0

\* line 306: out *= envelope, for a channel whose e_on is set, with a level
\* taken for a volume: the index is level * 2 + 1
ByEnvelopeDoubled(out, envelope) == out * ((envelope * 2 + 1) % 32)

\* line 306: out *= envelope, for a channel whose e_on is set
ByEnvelope(out, envelope) == out * envelope

\* line 306: out *= ay->channels[i].volume * 2 + 1
ByVolume(out, volume) == out * (volume * 2 + 1)

\* line 301: int noise = update_noise(ay), one step of the call.  "noise"
\* is line 228, "n_reached" the test of line 229, "n_restart" line 230,
\* "bit0x3" line 231, "shift" line 232, which reads ay->noise again, and
\* "n_out" line 234, whose value update_mixer keeps in noise
Noised(ay, t) ==
    CASE t.pc = "noise" ->
           [ay |-> [ay EXCEPT !.noise_counter = @ + 1],
            t |-> [t EXCEPT !.pc = "n_reached"]]
      [] t.pc = "n_reached" ->
           [ay |-> ay,
            t |-> [t EXCEPT !.pc = IF ay.noise_counter >= ay.noise_period * 2
                                    THEN "n_restart" ELSE "n_out"]]
      [] t.pc = "n_restart" ->
           [ay |-> [ay EXCEPT !.noise_counter = 0],
            t |-> [t EXCEPT !.pc = "bit0x3"]]
      [] t.pc = "bit0x3" ->
           [ay |-> ay,
            t |-> [t EXCEPT !.pc = "shift",
                            !.bit0x3 = ((ay.noise % 2)
                                        + ((ay.noise \div 8) % 2)) % 2]]
      [] t.pc = "shift" ->
           [ay |-> [ay EXCEPT !.noise = (@ \div 2) + t.bit0x3 * 65536],
            t |-> [t EXCEPT !.pc = "n_out", !.bit0x3 = 0]]
      [] OTHER ->
           [ay |-> ay,
            t |-> [t EXCEPT !.pc = "counter", !.noise = NoiseOutput(ay)]]

\* the values of pc inside update_noise
NoisePcs == {"noise", "n_reached", "n_restart", "bit0x3", "shift", "n_out"}

\* line 305, first operand: update_tone(ay, i), a being the chip it leaves
Toned(a, t) ==
    [ay |-> a, t |-> [t EXCEPT !.pc = "t_off", !.out = a.channels[t.ch].tone]]

\* line 307: ay->sample += ay->dac_table[out], through the pointer as it is
\* now, and the loop's i += 1; a null pointer is a fault
MixAdd(ay, t) ==
    IF ay.dac_table = "null" THEN [ay |-> ay, t |-> [t EXCEPT !.pc = "fault"]]
    ELSE [ay |-> [ay EXCEPT !.out[t.ch] = t.out,
                            !.sample = DAdd(@, DacAt(t.out))],
          t |-> IF t.ch + 1 < TONE_CHANNELS
                THEN [t EXCEPT !.pc = "tone", !.ch = @ + 1, !.out = 0]
                ELSE [t EXCEPT !.pc = "mixed", !.ch = 0, !.out = 0,
                               !.noise = 0, !.envelope = 0]]

\* lines 298-309: update_mixer, one step of it.  update_noise makes line
\* 301, update_envelope line 302,
\* "zero" is line 303; for each channel "tone", "t_off" and "n_off" are the
\* three operands of line 305 from left to right (update_tone reads
\* tone_period once), "e_on" and "volume" the reads of line 306 and "dac"
\* line 307
update_mixer(ay, t) ==
    CASE t.pc \in NoisePcs -> Noised(ay, t)
      [] t.pc = "zero" ->
           [ay |-> [ay EXCEPT !.sample = DZero],
            t |-> [t EXCEPT !.pc = "tone", !.ch = 0]]
      [] t.pc = "tone" -> Toned(update_tone(ay, t.ch), t)
      [] t.pc = "t_off" ->
           [ay |-> ay,
            t |-> [t EXCEPT !.pc = "n_off",
                            !.out = Or1(@, ay.channels[t.ch].t_off)]]
      [] t.pc = "n_off" ->
           [ay |-> ay,
            t |-> [t EXCEPT !.pc = "e_on",
                            !.out = And1(@, Or1(t.noise,
                                                ay.channels[t.ch].n_off))]]
      [] t.pc = "e_on" ->
           [ay |-> ay,
            t |-> IF ay.channels[t.ch].e_on # 0
                  THEN [t EXCEPT !.pc = "dac",
                                 !.out = ByEnvelope(@, t.envelope)]
                  ELSE [t EXCEPT !.pc = "volume"]]
      [] t.pc = "volume" ->
           [ay |-> ay,
            t |-> [t EXCEPT !.pc = "dac",
                            !.out = ByVolume(@, ay.channels[t.ch].volume)]]
      [] t.pc = "dac" -> MixAdd(ay, t)
      [] OTHER -> update_envelope(ay, t)

\* the values of pc inside update_mixer
MixerPcs ==
    {"zero", "tone", "t_off", "n_off", "e_on", "volume", "dac"}
        \cup NoisePcs \cup EnvelopePcs

\* line 451: fir = &ay->fir[FIR_SIZE - ay->fir_index * DECIMATE_FACTOR]
FirBase(fir_index) == FIR_SIZE - fir_index * DECIMATE_FACTOR

\* lines 357-440: the products of decimate's sum in the order of the source,
\* <<negative, digits after "0.", k>> for coefficient * (x[k] + x[FIR_SIZE - k])
TapDigits ==
    <<<<TRUE, <<0, 0, 0, 0, 0, 4, 6, 1, 8, 3, 1, 1, 3, 9, 9, 2, 0, 5, 1, 9, 3, 6>>, 1>>,
      <<TRUE, <<0, 0, 0, 0, 1, 1, 1, 7, 7, 6, 1, 6, 4, 0, 8, 8, 7, 2, 2, 5>>, 2>>,
      <<TRUE, <<0, 0, 0, 0, 1, 8, 6, 1, 0, 2, 6, 4, 5, 0, 2, 0, 0, 5, 4, 3, 2>>, 3>>,
      <<TRUE, <<0, 0, 0, 0, 2, 5, 1, 3, 4, 5, 8, 6, 1, 3, 5, 6, 3, 1, 0, 1, 2>>, 4>>,
      <<TRUE, <<0, 0, 0, 0, 2, 8, 4, 9, 4, 2, 8, 1, 6, 9, 0, 6, 6, 6, 1, 9, 7>>, 5>>,
      <<TRUE, <<0, 0, 0, 0, 2, 6, 3, 9, 6, 8, 2, 8, 7, 9, 3, 2, 7, 5, 1, 5, 9>>, 6>>,
      <<TRUE, <<0, 0, 0, 0, 1, 7, 0, 9, 4, 2, 1, 2, 5, 5, 8, 8, 0, 2, 1, 5, 6>>, 7>>,
      <<FALSE, <<0, 0, 0, 0, 2, 3, 7, 9, 8, 1, 9, 3, 5, 7, 6, 9, 6, 6, 8, 6, 6>>, 9>>,
      <<FALSE, <<0, 0, 0, 0, 5, 1, 2, 8, 1, 1, 6, 0, 2, 4, 2, 2, 0, 2, 1, 8, 3>>, 10>>,
      <<FALSE, <<0, 0, 0, 0, 7, 7, 6, 2, 1, 9, 7, 8, 2, 6, 2, 4, 3, 4, 2, 7>>, 11>>,
      <<FALSE, <<0, 0, 0, 0, 9, 6, 7, 5, 9, 4, 2, 6, 6, 6, 4, 1, 2, 0, 4, 1, 6>>, 12>>,
      <<FALSE, <<0, 0, 0, 1, 0, 2, 4, 0, 2, 2, 9, 3, 0, 0, 3, 9, 3, 4, 0, 2>>, 13>>,
      <<FALSE, <<0, 0, 0, 0, 8, 9, 3, 4, 4, 6, 1, 4, 2, 1, 8, 0, 7, 7, 1, 0, 6>>, 14>>,
      <<FALSE, <<0, 0, 0, 0, 5, 4, 8, 7, 5, 7, 0, 0, 1, 1, 8, 9, 4, 9, 1, 8, 3>>, 15>>,
      <<TRUE, <<0, 0, 0, 0, 6, 9, 8, 3, 9, 0, 8, 2, 2, 1, 0, 6, 8, 0, 1, 6, 5>>, 17>>,
      <<TRUE, <<0, 0, 0, 1, 4, 4, 7, 9, 6, 6, 1, 3, 2, 3, 6, 0, 7, 5, 7>>, 18>>,
      <<TRUE, <<0, 0, 0, 2, 1, 1, 5, 8, 4, 5, 2, 9, 1, 7, 7, 0, 8, 3, 0, 8>>, 19>>,
      <<TRUE, <<0, 0, 0, 2, 5, 5, 3, 5, 0, 6, 9, 1, 0, 6, 5, 5, 0, 5, 4, 4>>, 20>>,
      <<TRUE, <<0, 0, 0, 2, 6, 2, 2, 8, 7, 1, 4, 3, 7, 4, 3, 2, 2, 1, 0, 4>>, 21>>,
      <<TRUE, <<0, 0, 0, 2, 2, 2, 5, 8, 8, 0, 5, 9, 2, 7, 0, 2, 7, 7, 9, 9>>, 22>>,
      <<TRUE, <<0, 0, 0, 1, 3, 3, 2, 3, 2, 3, 0, 4, 9, 5, 6, 9, 5, 7, 0, 4>>, 23>>,
      <<FALSE, <<0, 0, 0, 1, 6, 1, 8, 2, 5, 7, 8, 7, 6, 7, 0, 5, 5, 2, 0, 6>>, 25>>,
      <<FALSE, <<0, 0, 0, 3, 2, 8, 4, 6, 1, 7, 5, 3, 8, 5, 0, 9, 6, 5, 8, 1>>, 26>>,
      <<FALSE, <<0, 0, 0, 4, 7, 0, 4, 5, 6, 1, 1, 5, 7, 6, 1, 8, 4, 8, 6, 3>>, 27>>,
      <<FALSE, <<0, 0, 0, 5, 5, 7, 1, 3, 8, 5, 1, 4, 5, 7, 5, 3, 0, 9, 4, 4>>, 28>>,
      <<FALSE, <<0, 0, 0, 5, 6, 2, 1, 2, 5, 6, 5, 1, 2, 1, 5, 1, 8, 7, 2, 6>>, 29>>,
      <<FALSE, <<0, 0, 0, 4, 6, 9, 0, 1, 9, 1, 8, 5, 5, 3, 9, 6, 2, 4, 7, 8>>, 30>>,
      <<FALSE, <<0, 0, 0, 2, 7, 6, 2, 4, 8, 6, 6, 8, 3, 8, 9, 5, 2, 9, 8, 6>>, 31>>,
      <<TRUE, <<0, 0, 0, 3, 2, 5, 6, 4, 1, 7, 9, 4, 8, 6, 8, 3, 8, 6, 2, 2>>, 33>>,
      <<TRUE, <<0, 0, 0, 6, 5, 1, 8, 2, 3, 1, 0, 2, 8, 6, 7, 1, 0, 3, 8, 8>>, 34>>,
      <<TRUE, <<0, 0, 0, 9, 2, 1, 2, 7, 7, 8, 7, 3, 0, 9, 3, 1, 9, 2, 9, 8>>, 35>>,
      <<TRUE, <<0, 0, 1, 0, 7, 7, 2, 5, 3, 4, 3, 4, 8, 9, 4, 3, 5, 7, 5>>, 36>>,
      <<TRUE, <<0, 0, 1, 0, 7, 3, 7, 7, 2, 7, 7, 0, 0, 2, 7, 3, 4, 7, 8>>, 37>>,
      <<TRUE, <<0, 0, 0, 8, 8, 5, 5, 6, 6, 4, 5, 3, 9, 0, 3, 9, 2, 6, 3, 4>>, 38>>,
      <<TRUE, <<0, 0, 0, 5, 1, 5, 8, 1, 8, 9, 6, 0, 9, 0, 7, 6, 5, 5, 3, 4>>, 39>>,
      <<FALSE, <<0, 0, 0, 5, 9, 5, 4, 8, 7, 6, 7, 1, 9, 3, 7, 9, 5, 2, 7, 7>>, 41>>,
      <<FALSE, <<0, 0, 1, 1, 8, 0, 3, 5, 5, 8, 7, 1, 0, 6, 6, 1, 0, 0, 9>>, 42>>,
      <<FALSE, <<0, 0, 1, 6, 5, 2, 7, 3, 2, 0, 2, 7, 0, 3, 6, 9, 8, 7, 1>>, 43>>,
      <<FALSE, <<0, 0, 1, 9, 1, 5, 2, 6, 7, 9, 3, 3, 0, 9, 6, 5, 5, 5, 5>>, 44>>,
      <<FALSE, <<0, 0, 1, 8, 9, 2, 7, 3, 2, 4, 8, 0, 5, 3, 8, 1, 5, 3, 8>>, 45>>,
      <<FALSE, <<0, 0, 1, 5, 4, 8, 1, 8, 7, 0, 3, 2, 7, 8, 7, 7, 9, 3, 7>>, 46>>,
      <<FALSE, <<0, 0, 0, 8, 9, 4, 7, 0, 6, 9, 5, 8, 3, 4, 9, 4, 1, 3, 0, 6>>, 47>>,
      <<TRUE, <<0, 0, 1, 0, 1, 7, 8, 2, 2, 5, 8, 7, 8, 2, 0, 6, 1, 2, 5>>, 49>>,
      <<TRUE, <<0, 0, 2, 0, 0, 3, 7, 4, 0, 0, 5, 5, 2, 0, 5, 4, 2, 9, 2>>, 50>>,
      <<TRUE, <<0, 0, 2, 7, 8, 7, 4, 3, 5, 6, 8, 2, 4, 1, 1, 7, 3, 1, 7>>, 51>>,
      <<TRUE, <<0, 0, 3, 2, 1, 0, 3, 2, 9, 9, 8, 8, 0, 2, 1, 9, 4, 3>>, 52>>,
      <<TRUE, <<0, 0, 3, 1, 5, 4, 0, 6, 2, 4, 1, 1, 7, 9, 8, 4, 3, 9, 5>>, 53>>,
      <<TRUE, <<0, 0, 2, 5, 6, 5, 7, 1, 6, 3, 6, 5, 1, 9, 0, 0, 3, 4, 5>>, 54>>,
      <<TRUE, <<0, 0, 1, 4, 7, 5, 0, 7, 5, 2, 6, 4, 2, 1, 1, 1, 4, 4, 9>>, 55>>,
      <<FALSE, <<0, 0, 1, 6, 6, 2, 4, 1, 6, 5, 4, 4, 6, 3, 7, 8, 4, 6, 2>>, 57>>,
      <<FALSE, <<0, 0, 3, 2, 5, 9, 1, 1, 9, 2, 8, 3, 9, 0, 6, 9, 1, 7, 9>>, 58>>,
      <<FALSE, <<0, 0, 4, 5, 1, 6, 5, 6, 8, 5, 8, 1, 5, 8, 6, 7, 7, 4, 7>>, 59>>,
      <<FALSE, <<0, 0, 5, 1, 8, 3, 8, 9, 8, 4, 3, 4, 6, 1, 2, 3, 8, 9, 6>>, 60>>,
      <<FALSE, <<0, 0, 5, 0, 7, 7, 4, 2, 6, 4, 6, 9, 7, 4, 5, 9, 9, 3, 3>>, 61>>,
      <<FALSE, <<0, 0, 4, 1, 1, 9, 2, 5, 2, 1, 4, 1, 4, 1, 4, 1, 5, 8, 5>>, 62>>,
      <<FALSE, <<0, 0, 2, 3, 6, 2, 8, 5, 7, 5, 4, 1, 7, 9, 6, 6, 4, 9, 1>>, 63>>,
      <<TRUE, <<0, 0, 2, 6, 5, 4, 3, 5, 0, 7, 8, 6, 6, 7, 5, 9, 1, 8, 2>>, 65>>,
      <<TRUE, <<0, 0, 5, 1, 9, 9, 0, 2, 5, 1, 0, 8, 4, 3, 3, 3, 4, 2, 5>>, 66>>,
      <<TRUE, <<0, 0, 7, 2, 0, 2, 0, 2, 3, 8, 2, 3, 4, 6, 5, 6, 9, 2, 4>>, 67>>,
      <<TRUE, <<0, 0, 8, 2, 6, 7, 2, 9, 2, 8, 1, 9, 2, 0, 0, 7, 3, 5, 8>>, 68>>,
      <<TRUE, <<0, 0, 8, 1, 0, 3, 3, 7, 3, 9, 5, 7, 2, 9, 5, 6, 2, 8, 7>>, 69>>,
      <<TRUE, <<0, 0, 6, 5, 8, 3, 1, 1, 1, 5, 3, 9, 5, 7, 0, 2, 2, 1>>, 70>>,
      <<TRUE, <<0, 0, 3, 7, 8, 3, 9, 0, 4, 0, 4, 1, 5, 2, 9, 2, 3, 8, 6>>, 71>>,
      <<FALSE, <<0, 0, 4, 2, 7, 8, 1, 2, 5, 2, 8, 5, 1, 1, 5, 2, 5, 0, 7>>, 73>>,
      <<FALSE, <<0, 0, 8, 4, 1, 7, 6, 3, 5, 8, 5, 9, 8, 3, 2, 0, 1, 7, 8>>, 74>>,
      <<FALSE, <<0, 1, 1, 7, 2, 5, 6, 6, 0, 5, 7, 4, 6, 3, 0, 5, 5>>, 75>>,
      <<FALSE, <<0, 1, 3, 5, 5, 0, 4, 7, 6, 6, 4, 7, 7, 8, 8, 6, 7, 2>>, 76>>,
      <<FALSE, <<0, 1, 3, 3, 8, 8, 1, 8, 9, 3, 6, 9, 9, 9, 7, 4, 9, 6>>, 77>>,
      <<FALSE, <<0, 1, 0, 9, 7, 9, 5, 0, 1, 2, 4, 2, 3, 4, 1, 2, 5, 9>>, 78>>,
      <<FALSE, <<0, 0, 6, 3, 8, 1, 2, 7, 4, 9, 4, 1, 6, 8, 5, 4, 1, 3>>, 79>>,
      <<TRUE, <<0, 0, 7, 4, 2, 1, 2, 2, 9, 6, 0, 4, 1, 5, 3, 8, 8, 8>>, 81>>,
      <<TRUE, <<0, 1, 4, 8, 6, 4, 5, 6, 3, 0, 4, 3, 4, 0, 2, 1, 3>>, 82>>,
      <<TRUE, <<0, 2, 1, 1, 4, 3, 5, 8, 4, 6, 2, 2, 1, 7, 8, 1, 0, 4>>, 83>>,
      <<TRUE, <<0, 2, 5, 0, 4, 2, 7, 5, 0, 5, 8, 7, 5, 8, 6, 0, 9>>, 84>>,
      <<TRUE, <<0, 2, 5, 4, 7, 3, 5, 3, 0, 9, 4, 2, 5, 4, 7, 2, 0, 1>>, 85>>,
      <<TRUE, <<0, 2, 1, 6, 2, 7, 3, 1, 0, 0, 1, 7, 8, 8, 2, 1, 9, 6>>, 86>>,
      <<TRUE, <<0, 1, 3, 1, 0, 4, 3, 2, 3, 3, 8, 3, 2, 2, 5, 5, 4, 3>>, 87>>,
      <<FALSE, <<0, 1, 7, 0, 6, 5, 1, 3, 3, 9, 8, 9, 9, 8, 0, 4, 7, 6>>, 89>>,
      <<FALSE, <<0, 3, 6, 9, 7, 8, 9, 1, 9, 2, 6, 4, 4, 5, 1, 9, 5, 2>>, 90>>,
      <<FALSE, <<0, 5, 8, 2, 3, 3, 1, 8, 0, 6, 2, 0, 9, 3, 9, 5, 8>>, 91>>,
      <<FALSE, <<0, 7, 9, 0, 7, 2, 0, 1, 2, 0, 8, 1, 4, 0, 5, 9, 4, 9>>, 92>>,
      <<FALSE, <<0, 9, 7, 6, 7, 5, 9, 9, 8, 7, 1, 6, 9, 5, 2, 3, 1, 7>>, 93>>,
      <<FALSE, <<1, 1, 2, 3, 6, 0, 4, 5, 9, 3, 6, 9, 5, 0, 9, 3, 2>>, 94>>,
      <<FALSE, <<1, 2, 1, 7, 6, 3, 4, 3, 5, 7, 7, 2, 8, 7, 7, 3, 1>>, 95>>>>

\* lines 357-440: the coefficient of each pair of taps, as a double, and
\* the distance k of the pair from the ends of the window
DecimateTaps ==
    [n \in 1 .. Len(TapDigits) |->
        <<SignedDec(TapDigits[n][1], TapDigits[n][2]), TapDigits[n][3]>>]

\* the literals 0.5, 0.25 and 0.125
Half == Dec(<<5>>)
Quarter == Dec(<<2, 5>>)
Eighth == Dec(<<1, 2, 5>>)

\* product n of decimate's sum over the window that starts at fir[base]
Tap(fir, base, n) ==
    DMul(DecimateTaps[n][1],
         DAdd(ArrayAt(fir, base + DecimateTaps[n][2]),
              ArrayAt(fir, base + FIR_SIZE - DecimateTaps[n][2])))

\* the sum st.y of the products before st.n, the products st.n .. last
\* added to it one after the other
RECURSIVE SumTaps(_, _, _, _)
SumTaps(fir, base, st, last) ==
    IF st.n > last THEN st
    ELSE SumTaps(fir, base,
                 [y |-> DAdd(st.y, Tap(fir, base, st.n)), n |-> st.n + 1],
                 last)

\* lines 357-441: the value decimate returns, the products added from the
\* left in four blocks and 0.125 * x[96] last
DecimateSum(fir, base) ==
    DAdd(SumTaps(fir, base,
                 SumTaps(fir, base,
                         SumTaps(fir, base,
                                 SumTaps(fir, base,
                                         [y |-> Tap(fir, base, 1), n |-> 2],
                                         21),
                                 42),
                         63),
                 Len(TapDigits)).y,
         DMul(Eighth, ArrayAt(fir, base + FIR_SIZE \div 2)))

\* a decimate that leaves the history as it is
decimate_without_copy(fir, base) == fir

\* line 442: memcpy(&x[FIR_SIZE - DECIMATE_FACTOR], x, DECIMATE_FACTOR * sizeof(double))
DecimateCopy(fir, base) ==
    LET to == base + FIR_SIZE - DECIMATE_FACTOR .. base + FIR_SIZE - 1
    IN  [k \in DOMAIN fir \cup to |->
            IF k \in to THEN ArrayAt(fir, k - (FIR_SIZE - DECIMATE_FACTOR))
            ELSE fir[k]]

\* lines 457-459: y[0] .. y[2] move down
ShiftSamples(a) ==
    [a EXCEPT !.interpolator.y =
                  [i \in 0 .. 3 |-> IF i < 3 THEN @[i + 1] ELSE @[i]]]

\* line 461: y[3] = ay->sample
NewSample(a) == [a EXCEPT !.interpolator.y[3] = a.sample]

\* lines 463-465: the coefficients c[0] .. c[2], half and quarter being the
\* literals 0.5 and 0.25
Coefficients(a, y, y1, half, quarter) ==
    [a EXCEPT !.interpolator.c =
        [@ EXCEPT ![0] = DAdd(DMul(half, y[1]),
                              DMul(quarter, DAdd(y[0], y[2]))),
                  ![1] = DMul(half, y1),
                  ![2] = DMul(quarter, DSub(DSub(y[3], y[1]), y1))]]

\* line 462: y1 = y[2] - y[0]
Fitted(a) ==
    Coefficients(a, a.interpolator.y,
                 DSub(a.interpolator.y[2], a.interpolator.y[0]),
                 Half, Quarter)

\* line 467: (c[2] * ay->x + c[1]) * ay->x + c[0]
SubSample(ay) ==
    LET c == ay.interpolator.c
    IN  DAdd(DMul(DAdd(DMul(c[2], ay.x), c[1]), ay.x), c[0])

\* lines 454-459: x is ay->x + ay->step
Turned(ay, t, x) ==
    IF ~DLess(x, DOne)
    THEN [ay |-> ShiftSamples([ay EXCEPT !.x = DSub(x, DOne)]),
          t |-> [t EXCEPT !.pc = "noise"]]
    ELSE [ay |-> [ay EXCEPT !.x = x], t |-> [t EXCEPT !.pc = "sub"]]

\* line 469: ay->sample = decimate(fir), which also copies the end of the
\* window
Decimated(a, base) ==
    [a EXCEPT !.fir = DecimateCopy(a.fir, base),
              !.sample = DecimateSum(a.fir, base)]

\* lines 446-470: ayumi_process, one step of it.  "base" is the read of
\* fir_index at line 451, "fir_index" and "next" the read and the write of
\* line 452; in each turn of the loop "turn" is lines 454-459 (it reads
\* ay->step), update_mixer makes line 460, "mixed" is lines 461-465 and
\* "sub" line 467 with the loop's i -= 1; "decimate" is line 469
ayumi_process(ay, t) ==
    CASE t.pc = "base" ->
           [ay |-> ay,
            t |-> [t EXCEPT !.pc = "fir_index",
                            !.base = FirBase(ay.fir_index)]]
      [] t.pc = "fir_index" ->
           [ay |-> ay, t |-> [t EXCEPT !.pc = "next", !.reg = ay.fir_index]]
      [] t.pc = "next" ->
           [ay |-> [ay EXCEPT !.fir_index =
                        (t.reg + 1) % (FIR_SIZE \div DECIMATE_FACTOR - 1)],
            t |-> [t EXCEPT !.pc = "turn", !.reg = 0,
                            !.i = DECIMATE_FACTOR - 1]]
      [] t.pc = "turn" -> Turned(ay, t, DAdd(ay.x, ay.step))
      [] t.pc = "mixed" ->
           [ay |-> Fitted(NewSample(ay)), t |-> [t EXCEPT !.pc = "sub"]]
      [] t.pc = "sub" ->
           [ay |-> [ay EXCEPT !.fir = ArrayPut(@, t.base + t.i, SubSample(ay))],
            t |-> IF t.i > 0 THEN [t EXCEPT !.pc = "turn", !.i = @ - 1]
                  ELSE [t EXCEPT !.pc = "decimate"]]
      [] t.pc = "decimate" ->
           [ay |-> Decimated(ay, t.base),
            t |-> [t EXCEPT !.pc = "processed", !.base = 0]]
      [] OTHER -> update_mixer(ay, t)

\* the values of pc inside ayumi_process
ProcessPcs ==
    {"base", "fir_index", "next", "turn", "mixed", "sub", "decimate"}
        \cup MixerPcs

\* 8 ^ ProcessDepth is more than the steps of one call of ayumi_process
ProcessDepth == 3

\* up to 8 ^ n steps a thread makes from s on with no step of another
\* thread in between, ending with the first one that leaves its pc in
\* stop: eight parts one after the other, each evaluated to the end (a
\* value equals itself) before the next begins
RECURSIVE Alone(_, _, _)
Alone(s, stop, n) ==
    IF s.t.pc \in stop THEN s
    ELSE IF n = 0 THEN ayumi_process(s.ay, s.t)
    ELSE LET a == Alone(s, stop, n - 1)
             b == Alone(a, stop, n - 1)
             c == Alone(b, stop, n - 1)
             d == Alone(c, stop, n - 1)
             e == Alone(d, stop, n - 1)
             f == Alone(e, stop, n - 1)
             g == Alone(f, stop, n - 1)
         IN  IF a = a /\ b = b /\ c = c /\ d = d /\ e = e /\ f = f /\ g = g
             THEN Alone(g, stop, n - 1) ELSE s

\* ayumi_process(ay) from its first statement to its return, taken alone
Processed(ay) ==
    Alone([ay |-> ay, t |-> [CbIdle EXCEPT !.pc = "base"]],
          {"processed", "fault"}, ProcessDepth).ay

\* (period == 0) | period, lines 326, 331, 346
OrZero(period) == IF period = 0 THEN 1 ELSE period

\* lines 324-327: ayumi_set_tone
ayumi_set_tone(ay, index, period) ==
    [ay EXCEPT !.channels[index].tone_period = OrZero(period % 4096)]

\* lines 329-332: ayumi_set_noise
ayumi_set_noise(ay, period) ==
    [ay EXCEPT !.noise_period = OrZero(period % 32)]

\* lines 334-338: ayumi_set_mixer, statement k of its three
ayumi_set_mixer(ay, index, t_off, n_off, e_on, k) ==
    CASE k = 1 -> [ay EXCEPT !.channels[index].t_off = t_off % 2]
      [] k = 2 -> [ay EXCEPT !.channels[index].n_off = n_off % 2]
      [] OTHER -> [ay EXCEPT !.channels[index].e_on = e_on]

\* lines 340-342: ayumi_set_volume
ayumi_set_volume(ay, index, volume) ==
    [ay EXCEPT !.channels[index].volume = volume % 16]

\* lines 344-347: ayumi_set_envelope
ayumi_set_envelope(ay, period) ==
    [ay EXCEPT !.envelope_period = OrZero(period % 65536)]

\* line 313: memset(ay, 0, sizeof(struct ayumi)).  Of a chip that was never
\* configured only fir_index and dc_index can differ from 0 (ayumi_process
\* and ayumi_remove_dc advance them on every frame), so that two stores of
\* the memset change the chip: the one over fir_index and the one over
\* dc_index.  ZeroedLow is the memset of the members up to fir_index,
\* ZeroedHigh that of the members after it
ZeroedLow(ay) ==
    [ZeroChip EXCEPT !.dc = ay.dc, !.dc_index = ay.dc_index,
                     !.sample = ay.sample]
ZeroedHigh(ay) ==
    [ay EXCEPT !.dc = ZeroChip.dc, !.dc_index = 0, !.sample = DZero]

\* the number of steps of one ayumi_configure
ConfigureSteps == 9

\* lines 311-322: ayumi_configure(ay, 0, ClockRate, sr), step k of it: the
\* two halves of the memset, from the low addresses up or from the high
\* ones down as the library's memset goes, lines 314-317 and the three
\* turns of the loop of line 318
ayumi_configure(ay, sr, k, up) ==
    CASE k = 1 -> IF up THEN ZeroedLow(ay) ELSE ZeroedHigh(ay)
      [] k = 2 -> IF up THEN ZeroedHigh(ay) ELSE ZeroedLow(ay)
      [] k = 3 -> [ay EXCEPT !.step = DDiv(DFromInt(ClockRate),
                                           DFromInt(sr * 8 * DECIMATE_FACTOR))]
      [] k = 4 -> [ay EXCEPT !.dac_table = "AY"]
      [] k = 5 -> [ay EXCEPT !.noise = 1]
      [] k = 6 -> ayumi_set_envelope(ay, 1)
      [] OTHER -> ayumi_set_tone(ay, k - 7, 1)

\* the number of steps of lines 799-804
InitSteps == 2 * ConfigureSteps + 8

\* ads_noisemaker_init lines 799-804, step k of them: ayumi_configure of
\* both chips, then ayumi_set_mixer and ayumi_set_volume of both; up is the
\* direction of the memset under way
ads_noisemaker_init(chips, sr, k, up) ==
    CASE k <= ConfigureSteps ->
           [chips EXCEPT ![1] = ayumi_configure(@, sr, k, up)]
      [] k <= 2 * ConfigureSteps ->
           [chips EXCEPT ![2] = ayumi_configure(@, sr, k - ConfigureSteps,
                                                up)]
      [] k <= 2 * ConfigureSteps + 3 ->
           [chips EXCEPT ![1] = ayumi_set_mixer(@, 0, 0, 1, 0,
                                                k - 2 * ConfigureSteps)]
      [] k = 2 * ConfigureSteps + 4 ->
           [chips EXCEPT ![1] = ayumi_set_volume(@, 0, 15)]
      [] k <= 2 * ConfigureSteps + 7 ->
           [chips EXCEPT ![2] = ayumi_set_mixer(@, 0, 0, 1, 0,
                                                k - 2 * ConfigureSteps - 4)]
      [] OTHER -> [chips EXCEPT ![2] = ayumi_set_volume(@, 0, 15)]

\* steps k .. last of lines 799-804 with no callback in between: four
\* parts of q steps one after the other, each evaluated to the end (a
\* value equals itself) before the next begins
RECURSIVE Prepared(_, _, _, _)
Prepared(chips, sr, k, last) ==
    CASE k > last -> chips
      [] k = last -> ads_noisemaker_init(chips, sr, k, TRUE)
      [] OTHER ->
           LET q == (last - k + 4) \div 4
               a == Prepared(chips, sr, k, k + q - 1)
               b == Prepared(a, sr, k + q, Min(k + 2 * q - 1, last))
               c == Prepared(b, sr, k + 2 * q, Min(k + 3 * q - 1, last))
           IN  IF a = a /\ b = b /\ c = c
               THEN Prepared(c, sr, k + 3 * q, last) ELSE chips

\* both chips as ads_noisemaker_init leaves them
PreparedChips(sr) == Prepared([p \in Chips |-> ZeroChip], sr, 1, InitSteps)

\* x & ~0xff
ClearLowByte(x) == x - (x % 256)

\* an and that keeps nothing
KeepNothing(x) == 0

\* x & 0xff
KeepLowByte(x) == x % 256

\* x | v for x, v >= 0
RECURSIVE BitOr(_, _)
BitOr(x, v) ==
    IF x = 0 THEN v
    ELSE IF v = 0 THEN x
    ELSE Or1(x % 2, v % 2) + 2 * BitOr(x \div 2, v \div 2)

\* (data >> n) & 1
Bit(data, n) == (data \div (2 ^ n)) % 2

\* lines 490-556: the number of statements of psg_out's case that store a
\* value given by the call into the chip (line 550, reset_segment, follows
\* the three of register 13)
PsgStores(register_select) ==
    CASE register_select \in 0 .. 5 -> 2
      [] register_select = 6 -> 1
      [] register_select = 7 -> 6
      [] register_select \in 8 .. 12 -> 2
      [] register_select = 13 -> 3
      [] OTHER -> 0

\* lines 486-557: psg_out, statement k (1, 2, ...) of the case of
\* register_select; no lock is held, the audio thread may run between two
\* statements
psg_out(ay, register_select, data, k) ==
    CASE register_select \in {0, 2, 4} ->
           [ay EXCEPT !.channels[register_select \div 2].tone_period =
                          IF k = 1 THEN ClearLowByte(@) ELSE BitOr(@, data)]
      [] register_select \in {1, 3, 5} ->
           [ay EXCEPT !.channels[register_select \div 2].tone_period =
                          IF k = 1 THEN KeepLowByte(@)
                          ELSE BitOr(@, (data % 16) * 256)]
      [] register_select = 6 -> [ay EXCEPT !.noise_period = data % 32]
      [] register_select = 7 ->
           IF k <= 3
           THEN [ay EXCEPT !.channels[k - 1].t_off = Bit(data, k - 1)]
           ELSE [ay EXCEPT !.channels[k - 4].n_off = Bit(data, k - 1)]
      [] register_select \in {8, 9, 10} ->
           IF k = 1
           THEN [ay EXCEPT !.channels[register_select - 8].e_on = Bit(data, 4)]
           ELSE [ay EXCEPT !.channels[register_select - 8].volume = data % 16]
      [] register_select = 11 ->
           [ay EXCEPT !.envelope_period =
                          IF k = 1 THEN ClearLowByte(@) ELSE BitOr(@, data)]
      [] register_select = 12 ->
           [ay EXCEPT !.envelope_period =
                          IF k = 1 THEN KeepLowByte(@)
                          ELSE BitOr(@, data * 256)]
      [] register_select = 13 ->
           CASE k = 1 -> [ay EXCEPT !.envelope_shape = data % 16]
             [] k = 2 -> [ay EXCEPT !.envelope_counter = 0]
             [] OTHER -> [ay EXCEPT !.envelope_segment = 0]
      [] OTHER -> ay

\* lines 474-475: delay[index] = x and the value returned, sum being dc->sum
\* as line 473 leaves it
DcStored(dc, index, x, sum) ==
    [dc |-> [sum |-> sum, delay |-> ArrayPut(dc.delay, index, x)],
     y |-> DSub(x, DDiv(sum, DFromInt(DC_FILTER_SIZE)))]

\* a filter that never takes the oldest sample out of its sum
dc_filter_keeps_oldest(dc, index, x) ==
    DcStored(dc, index, x, DAdd(dc.sum, x))

\* lines 472-476: dc_filter on one struct dc_filter; y is the value returned
dc_filter(dc, index, x) ==
    DcStored(dc, index, x,
             DAdd(dc.sum, DAdd(DNeg(ArrayAt(dc.delay, index)), x)))

\* line 479: ay->sample = dc_filter(&ay->dc, ay->dc_index, ay->sample), r
\* being what dc_filter returns
Filtered(ay, t, r) ==
    [ay |-> [ay EXCEPT !.dc = r.dc, !.sample = r.y],
     t |-> [t EXCEPT !.pc = "dc_index"]]

\* lines 478-481: ayumi_remove_dc, one step of it: "dc" is line 479, which
\* reads dc_index once, "dc_index" and "dc_next" are the read and the write
\* of line 480
ayumi_remove_dc(ay, t) ==
    CASE t.pc = "dc" ->
           Filtered(ay, t, dc_filter(ay.dc, ay.dc_index, ay.sample))
      [] t.pc = "dc_index" ->
           [ay |-> ay, t |-> [t EXCEPT !.pc = "dc_next", !.reg = ay.dc_index]]
      [] OTHER ->
           [ay |-> [ay EXCEPT !.dc_index = (t.reg + 1) % DC_FILTER_SIZE],
            t |-> [t EXCEPT !.pc = "removed", !.reg = 0]]

\* the values of pc inside ayumi_remove_dc
RemoveDcPcs == {"dc", "dc_index", "dc_next"}

\* one more step of ayumi_remove_dc
RemoveDcNext(s) == ayumi_remove_dc(s.ay, s.t)

\* ayumi_remove_dc(ay) from its first statement to its return, with no
\* step of another thread in between
DcRemoved(ay) ==
    RemoveDcNext(RemoveDcNext(RemoveDcNext(
        [ay |-> ay, t |-> [CbIdle EXCEPT !.pc = "dc"]]))).ay

\* line 550, reset_segment(ay) in psg_out on chip p, one step of it; the
\* call is over when reset_segment has returned
ShapeStep(chips, select, out, p, r) ==
    [psg |-> [chips EXCEPT ![p] = r.ay],
     sel |-> select,
     out |-> IF r.t.pc = "idle" THEN OutIdle ELSE r.t]

\* lines 918 and 924: psg_out(ay, register_select, data) on chip p, one
\* step of it: the first statement when out is idle, otherwise the one
\* after the out.k made so far, and for register 13 the steps of
\* reset_segment after the third
DataStep(chips, select, out, p, data) ==
    IF out.pc \in ResetPcs
    THEN ShapeStep(chips, select, out, p, reset_segment(chips[p], out, "idle"))
    ELSE IF PsgStores(select[p]) = 0
    THEN [psg |-> chips, sel |-> select, out |-> OutIdle]
    ELSE [psg |-> [chips EXCEPT ![p] = psg_out(@, select[p], data, out.k + 1)],
          sel |-> select,
          out |-> IF out.k + 1 < PsgStores(select[p])
                  THEN [OutIdle EXCEPT !.pc = "store", !.p = p,
                                       !.r = select[p], !.data = data,
                                       !.k = out.k + 1]
                  ELSE IF select[p] = 13
                  THEN [OutIdle EXCEPT !.pc = "reset", !.p = p, !.r = 13,
                                       !.data = data]
                  ELSE OutIdle]

\* lines 593-594: the callback's loop begins, for frames frames
CbBegun(frames) ==
    [CbIdle EXCEPT !.pc = "base", !.p = 1, !.frames = frames]

\* lines 604 and 594: the frame is made; the loop goes on or the callback
\* returns
LoopEnd(t) ==
    IF t.n + 1 < t.frames
    THEN [CbIdle EXCEPT !.pc = "base", !.p = 1, !.frames = t.frames,
                        !.n = t.n + 1]
    ELSE CbIdle

\* the process is killed by a signal: no thread of it makes another step
Dead(board) ==
    [board EXCEPT !.pc = "dead", !.cb = [CbIdle EXCEPT !.pc = "dead"]]

\* lines 596-597: a step r of ayumi_process was made on a chip; the second
\* chip follows the first, and a null dac_table kills the process
ProcessStep(chips, board, r) ==
    [psg |-> [chips EXCEPT ![board.cb.p] = r.ay],
     nm |-> CASE r.t.pc = "fault" -> Dead(board)
              [] r.t.pc = "processed" ->
                   [board EXCEPT !.cb = IF r.t.p = 1
                                        THEN [r.t EXCEPT !.pc = "base", !.p = 2]
                                        ELSE [r.t EXCEPT !.pc = "dc", !.p = 1]]
              [] OTHER -> [board EXCEPT !.cb = r.t]]

\* lines 598-599: a step r of ayumi_remove_dc was made on a chip; lines
\* 602-604 follow that of the second
RemoveDcStep(chips, board, r) ==
    [psg |-> [chips EXCEPT ![board.cb.p] = r.ay],
     nm |-> IF r.t.pc = "removed"
            THEN [board EXCEPT !.cb = IF r.t.p = 1
                                      THEN [r.t EXCEPT !.pc = "dc", !.p = 2]
                                      ELSE [r.t EXCEPT !.pc = "index", !.p = 0]]
            ELSE [board EXCEPT !.cb = r.t]]

\* lines 608 and 609: a store through the pointer the thread has read.  A
\* null pointer kills the process; a buffer that was freed is written
\* into, which the process survives or not (dies) as the allocator has
\* kept or returned the memory
BufferStore(board, t, dies) ==
    CASE t.buf = "null" ->
           Dead([board EXCEPT !.bad = IF @ = "no" THEN "null" ELSE @])
      [] board.buffer = "freed" /\ dies ->
           Dead([board EXCEPT !.bad = IF @ = "no" THEN "freed" ELSE @])
      [] OTHER ->
           [board EXCEPT
               !.bad = IF @ = "no" /\ board.buffer = "freed" THEN "freed"
                       ELSE @,
               !.cb = [t EXCEPT !.pc = IF @ = "store" THEN "buffer2"
                                       ELSE "more",
                                !.buf = "null"]]

\* lines 607-611, one step: "index" and "size" are the two reads of line
\* 607; "buffer", "slot" and "store" the reads of buffer and index and the
\* store of line 608, "buffer2", "slot2" and "store2" those of line 609;
\* "more" and "stored" the read and the write of line 610
FrameStep(board, t, dies) ==
    CASE t.pc = "index" ->
           [board EXCEPT !.cb = [t EXCEPT !.pc = "size", !.reg = board.index]]
      [] t.pc = "size" ->
           [board EXCEPT !.cb = IF t.reg < board.size
                                THEN [t EXCEPT !.pc = "buffer", !.reg = 0]
                                ELSE LoopEnd(t)]
      [] t.pc \in {"buffer", "buffer2"} ->
           [board EXCEPT !.cb = [t EXCEPT !.pc = IF @ = "buffer" THEN "slot"
                                                 ELSE "slot2",
                                          !.buf = board.buffer]]
      [] t.pc \in {"slot", "slot2"} ->
           [board EXCEPT !.cb = [t EXCEPT !.pc = IF @ = "slot" THEN "store"
                                                 ELSE "store2",
                                          !.reg = board.index]]
      [] t.pc \in {"store", "store2"} ->
           BufferStore(board, [t EXCEPT !.reg = 0], dies)
      [] t.pc = "more" ->
           [board EXCEPT !.cb = [t EXCEPT !.pc = "stored", !.reg = board.index]]
      [] OTHER ->
           [board EXCEPT !.index = t.reg + 1, !.stored = @ + 1,
                         !.cb = LoopEnd(t)]

\* the values of pc in lines 607-611
FramePcs ==
    {"index", "size", "buffer", "slot", "store", "buffer2", "slot2", "store2",
     "more", "stored"}

\* lines 582-613: sdl_audio_callback on the chips and the board, one step
\* of the audio thread board.cb
sdl_audio_callback(chips, board, dies) ==
    CASE board.cb.pc \in FramePcs ->
           [psg |-> chips, nm |-> FrameStep(board, board.cb, dies)]
      [] board.cb.pc \in RemoveDcPcs ->
           RemoveDcStep(chips, board,
                        ayumi_remove_dc(chips[board.cb.p], board.cb))
      [] OTHER ->
           ProcessStep(chips, board,
                       ayumi_process(chips[board.cb.p], board.cb))

\* the audio thread in the callback for one frame, if it is in none
InCallback(cb) == IF cb.pc = "idle" THEN CbBegun(1) ELSE cb

\* the audio thread at pc in a function on chip p, if it is in none
Entered(cb, pc, p) ==
    IF cb.pc = "idle" THEN [CbIdle EXCEPT !.pc = pc, !.p = p] ELSE cb

\* a board whose two chips share one register select
ads_noisemaker_out_one_select(chips, select, out, port, data) ==
    CASE port \in {0, 2} -> [psg |-> chips, sel |-> [p \in Chips |-> data % 16],
                            out |-> OutIdle]
      [] port = 1 -> DataStep(chips, select, out, 1, data)
      [] port = 3 -> DataStep(chips, select, out, 2, data)
      [] OTHER -> [psg |-> chips, sel |-> select, out |-> OutIdle]

\* lines 894-929: ads_noisemaker_out(port, data) on the chips and the two
\* register selects, one step of the CPU thread: a write to a register
\* select is one store, a data write makes one statement of psg_out; ports
\* other than 0..3 are ignored
ads_noisemaker_out(chips, select, out, port, data) ==
    CASE port = 0 -> [psg |-> chips, sel |-> [select EXCEPT ![1] = data % 16],
                      out |-> OutIdle]
      [] port = 1 -> DataStep(chips, select, out, 1, data)
      [] port = 2 -> [psg |-> chips, sel |-> [select EXCEPT ![2] = data % 16],
                      out |-> OutIdle]
      [] port = 3 -> DataStep(chips, select, out, 2, data)
      [] OTHER -> [psg |-> chips, sel |-> select, out |-> OutIdle]

\* the CPU thread may make a step of ads_noisemaker_out(port, data): it is
\* in no call, or it is in this one
MayOut(out, port, data) ==
    out.pc = "idle" \/ (port = 2 * out.p - 1 /\ data = out.data)

\* the Noisemaker after ads_noisemaker_init with recording switched off
NmRunning == [NmOff EXCEPT !.pc = "run", !.sink = TRUE]

\* the sample rates a device is configured with
SampleRates == {22050, 44100}

\* the D+7A variables, which the Noisemaker's actions leave alone
d7aVars == <<build, ratio, T, ring_buffer, last_data, last_time, timing_error,
             underflows, overflows, dropouts, timeouts, prod, cons, stream,
             appended, popped, hist, wave, d7a>>

---------------------------------------------------------------------------
(* State after cromemco_d7a_init (lines 541-549) and the static initialisers *)

EmptyChannel ==
    [sample |-> [i \in 0 .. RING_BUFFER_SIZE - 1 |-> 0],
     start |-> 0, end |-> 0, count |-> 0]

\* locals of cromemco_d7a_record and where the call stands (pc; build "sdl":
\* "lock" at SDL_LockAudioDevice, "last" after SDL_UnlockAudioDevice); todo
\* is the rest of the samples the append
\* loop still has to store, reg the register of a read-modify-write; held,
\* steps and was are history (the consumer has been inside its critical
\* section ever since the call began / steps made / the channel's last_time
\* and timing_error when the call began)
ProdIdle ==
    [pc |-> "idle", port |-> 0, data |-> 0, c |-> 0, count |-> 0,
     timeout |-> 0, reg |-> 0, todo |-> <<>>, held |-> FALSE, steps |-> 0,
     was |-> <<0, 0>>]

\* locals of paCallback; out is the number of slots written so far
ConsIdle ==
    [pc |-> "idle", frames |-> 0, i |-> 0, c |-> 0, max |-> 0, reg |-> 0,
     out |-> 0]

\* everything but the configured ratio
InitDevice ==
    /\ T = 0
    /\ ring_buffer = [lock |-> 0, last_count |-> 0,
                      channel |-> [c \in Chan |-> EmptyChannel]]
    /\ last_data = [c \in Chan |-> 0]
    /\ last_time = [c \in Chan |-> 0]
    /\ timing_error = [c \in Chan |-> DZero]
    /\ underflows = 0 /\ overflows = 0 /\ dropouts = 0 /\ timeouts = 0
    /\ prod = ProdIdle
    /\ cons = ConsIdle
    /\ stream = <<>>
    /\ appended = [c \in Chan |-> <<>>]
    /\ popped = [c \in Chan |-> <<>>]
    /\ hist = [rec |-> 0, cb |-> 0, req |-> 0, ran |-> FALSE,
               base |-> [c \in Chan |-> -1],
               n |-> [c \in Chan |-> 0],
               dt |-> [c \in Chan |-> 0],
               uniform |-> [c \in Chan |-> TRUE],
               clamped |-> [c \in Chan |-> FALSE],
               w |-> [c |-> 0, whole |-> 0, occupied |-> 0, data |-> 0]]

InitCommon == ratio \in Ratios /\ InitDevice /\ D7aRunning /\ NmIdle

Init == build = "sdl" /\ InitCommon

---------------------------------------------------------------------------
(* The CPU executes instructions worth dt T-states between two port      *)
(* writes; the very first instruction may already be the port write.       *)

CpuRun(dt) ==
    /\ prod.pc = "idle"
    /\ ~hist.ran
    /\ hist.rec < MaxRec
    /\ T' = T + dt
    /\ hist' = [hist EXCEPT !.ran = TRUE]
    /\ UNCHANGED <<nmVars, wave, build, ratio, ring_buffer, last_data, last_time,
                   timing_error, underflows, overflows, dropouts, timeouts,
                   prod, cons, stream, appended, popped>>

\* a port write may come now
MayWrite == hist.rec < MaxRec /\ (hist.ran \/ hist.rec = 0)

\* history of the writes to channel c: base is the time of the channel's
\* first write, n the number of writes after it, dt the T-states between the
\* first two, uniform whether all writes so far were dt apart, clamped
\* whether a write to c has overflowed, w the latest write (build "sdl":
\* its channel, the whole it computed, the count it found and the level
\* written)
NoteWrite(c) ==
    IF hist.base[c] < 0
    THEN [hist EXCEPT !.rec = @ + 1, !.ran = FALSE, !.base[c] = T]
    ELSE [hist EXCEPT !.rec = @ + 1, !.ran = FALSE,
                      !.n[c] = @ + 1,
                      !.dt[c] = IF hist.n[c] = 0 THEN T - last_time[c] ELSE @,
                      !.uniform[c] = @ /\ (hist.n[c] = 0
                                           \/ T - last_time[c] = hist.dt[c])]

---------------------------------------------------------------------------
(* cromemco_d7a_record (lines 379-511), either build: what the call does  *)
(* before it waits for the lock and after it has released it              *)

\* build "flag": the two threads' critical sections, between taking and
\* releasing the lock
ProdInside ==
    prod.pc \in {"under", "clamp", "drop", "store", "addread", "addwrite",
                 "unlock"}

ConsInside ==
    cons.pc \in {"first", "count", "pad", "test", "read", "decread", "decwrite",
                 "unlock"}

\* lines 403-416 (and 423) for channel c, lines 409-415 giving timing:
\* everything up to the wait for the lock touches only the producer's own
\* variables
RecBeginTimed(port, data, c, timing) ==
    /\ prod' = [ProdIdle EXCEPT
                   !.pc = IF build = "sdl" THEN "lock" ELSE "spin",
                   !.port = port, !.data = data, !.c = c,
                   !.count = timing.whole,
                   !.timeout = IF build = "sdl" THEN 0 ELSE SpinBudget,
                   !.held = ConsInside, !.steps = 1,
                   !.was = <<last_time[c], timing_error[c]>>]
    /\ timing_error' = [timing_error EXCEPT ![c] = timing.drift]
    /\ last_time' = [last_time EXCEPT ![c] = T]
    /\ hist' = NoteWrite(c)
    /\ wave' = WaveStatus(wave, wave.index[c], 0)

\* lines 379-416: the call begins; it goes on to SDL_LockAudioDevice (line
\* 419) or to the wait for the flag (line 424)
RecBegin(port, data) ==
    /\ prod.pc = "idle"
    /\ MayWrite
    /\ RecBeginTimed(port, data, Channel(port), Timing(Channel(port), T))
    /\ UNCHANGED <<nmVars, build, ratio, T, ring_buffer, last_data, underflows,
                   overflows, dropouts, timeouts, cons, stream, appended,
                   popped>>

\* lines 505-510: the lock released, the written level is remembered and the
\* call returns
RecReturn ==
    /\ prod.pc = "last"
    /\ last_data' = SetLastData(prod.port, prod.data)
    /\ prod' = ProdIdle
    /\ UNCHANGED <<nmVars, wave, build, ratio, T, ring_buffer, last_time,
                   timing_error, underflows, overflows, dropouts, timeouts,
                   cons, stream, appended, popped, hist>>

---------------------------------------------------------------------------
(* build "sdl": the critical section of cromemco_d7a_record (lines         *)
(* 419-499) under the device lock                                          *)

\* lines 435-440: the number of samples a call appends, the elapsed count or
\* what is left of it after the clamp
Appended(whole, occupied) ==
    IF IsOverflow(whole, occupied) THEN Clamp(whole, occupied) ELSE whole

\* lines 433-496 for channel c, whole being the count of lines 410-415 and
\* smp the samples of lines 447-495
RecordSamples(c, data, whole, smp) ==
    LET ch == ring_buffer.channel[c]
        ovf == IsOverflow(whole, ch.count)
        count == Appended(whole, ch.count)
    IN  /\ underflows' = IF IsUnderflow(ch.count)
                         THEN underflows + 1 ELSE underflows
        /\ overflows' = IF ovf THEN overflows + 1 ELSE overflows
        /\ dropouts' = IF ~ovf /\ IsDropout(whole)
                       THEN dropouts + 1 ELSE dropouts
        /\ ring_buffer' =
              [ring_buffer EXCEPT !.channel[c] =
                  [StoreAll(ch, smp) EXCEPT !.count = ch.count + count]]
        /\ appended' = [appended EXCEPT ![c] = @ \o smp]
        /\ hist' = [hist EXCEPT
                       !.clamped[c] = @ \/ ovf,
                       !.w = [c |-> c, whole |-> whole,
                              occupied |-> ch.count, data |-> data]]
        /\ wave' = WaveStored(WaveTagged(wave, c, ovf, IsDropout(whole)), c,
                              Recorded(count, data, last_data[c]))

\* lines 419-499: SDL_LockAudioDevice returns once no callback is running;
\* no callback runs until SDL_UnlockAudioDevice
RecLocked ==
    /\ build = "sdl"
    /\ prod.pc = "lock"
    /\ RecordSamples(prod.c, prod.data, prod.count,
                     Samples(Appended(prod.count,
                                      ring_buffer.channel[prod.c].count),
                             prod.data, last_data[prod.c]))
    /\ prod' = [prod EXCEPT !.pc = "last", !.steps = @ + 1]
    /\ UNCHANGED <<nmVars, build, ratio, T, last_data, last_time, timing_error,
                   timeouts, cons, stream, popped>>

---------------------------------------------------------------------------
(* build "sdl": sdl_audio_callback (lines 117-162), len bytes = frames * 2 *)

SdlCallback(len) ==
    /\ build = "sdl"
    /\ hist.cb < MaxCb
    /\ hist' = [hist EXCEPT !.cb = @ + 1, !.req = len]
    /\ IF ring_buffer.lock # 0 \/ len = 0
       THEN /\ stream' = Unwritten(len)
            /\ UNCHANGED <<ring_buffer, popped>>
       ELSE LET max == MaxCount(ring_buffer.channel)
                first == ring_buffer.last_count = 0
                i0 == IF first THEN SdlPadded(SdlGap(len, max)) ELSE 0
                cs == SdlCopy([channel |-> ring_buffer.channel,
                               out |-> Pad(<<>>, i0, ring_buffer.channel),
                               popped |-> popped], i0, len)
            IN  /\ ring_buffer' = [ring_buffer EXCEPT
                                     !.channel = cs.channel,
                                     !.last_count = IF first THEN max ELSE @]
                /\ stream' = cs.out
                /\ popped' = cs.popped
    /\ UNCHANGED <<nmVars, wave, build, ratio, T, last_data, last_time, timing_error,
                   underflows, overflows, dropouts, timeouts, prod, cons,
                   appended>>

---------------------------------------------------------------------------
(* build "flag": cromemco_d7a_record (lines 379-511), one step per access  *)
(* to memory shared with paCallback                                        *)

\* a wait without a budget
SpinWhileLocked(lock, timeout) == lock # 0

\* line 424: while (ring_buffer.lock && !timeout)
SpinAgain(lock, timeout) == lock # 0 /\ timeout = 0

\* line 424: timeout-- on uint64_t (2147483647 stands for UINT64_MAX)
Decrement(timeout) == IF timeout = 0 THEN 2147483647 ELSE timeout - 1

\* line 425: if (!timeout)
TimedOut(timeout) == timeout = 0

\* line 424: one evaluation of the loop condition
RecSpin ==
    /\ prod.pc = "spin"
    /\ IF SpinAgain(ring_buffer.lock, prod.timeout)
       THEN prod' = [prod EXCEPT !.timeout = Decrement(@), !.steps = @ + 1]
       ELSE prod' = [prod EXCEPT !.pc = "check", !.steps = @ + 1]
    /\ UNCHANGED <<nmVars, wave, build, ratio, T, ring_buffer, last_data, last_time,
                   timing_error, underflows, overflows, dropouts, timeouts,
                   cons, stream, appended, popped, hist>>

\* lines 425-430: give up, or take the lock
RecCheck ==
    /\ prod.pc = "check"
    /\ IF TimedOut(prod.timeout)
       THEN /\ timeouts' = timeouts + 1
            /\ wave' = WaveStatus(wave, wave.index[prod.c] - 1, 4)
            /\ prod' = ProdIdle
            /\ UNCHANGED ring_buffer
       ELSE /\ ring_buffer' = [ring_buffer EXCEPT !.lock = 1]
            /\ prod' = [prod EXCEPT !.pc = "under", !.steps = @ + 1]
            /\ UNCHANGED <<timeouts, wave>>
    /\ UNCHANGED <<nmVars, build, ratio, T, last_data, last_time, timing_error,
                   underflows, overflows, dropouts, cons, stream, appended,
                   popped, hist>>

\* line 433
RecUnder ==
    /\ prod.pc = "under"
    /\ underflows' = IF IsUnderflow(ring_buffer.channel[prod.c].count)
                     THEN underflows + 1 ELSE underflows
    /\ prod' = [prod EXCEPT !.pc = "clamp", !.steps = @ + 1]
    /\ UNCHANGED <<nmVars, wave, build, ratio, T, ring_buffer, last_data, last_time,
                   timing_error, overflows, dropouts, timeouts, cons, stream,
                   appended, popped, hist>>

\* lines 435 and 441-444: the comparison reads the channel's count
RecClamp ==
    /\ prod.pc = "clamp"
    /\ IF IsOverflow(prod.count, ring_buffer.channel[prod.c].count)
       THEN /\ prod' = [prod EXCEPT !.pc = "drop", !.steps = @ + 1]
            /\ UNCHANGED <<dropouts, wave>>
       ELSE /\ prod' = [prod EXCEPT
                          !.pc = "store", !.steps = @ + 1,
                          !.todo = Samples(prod.count, prod.data,
                                           last_data[prod.c])]
            /\ dropouts' = IF IsDropout(prod.count)
                           THEN dropouts + 1 ELSE dropouts
            /\ wave' = IF IsDropout(prod.count)
                       THEN WaveStatus(wave, wave.index[prod.c] - 1, 2)
                       ELSE wave
    /\ UNCHANGED <<nmVars, build, ratio, T, ring_buffer, last_data, last_time,
                   timing_error, underflows, overflows, timeouts, cons,
                   stream, appended, popped, hist>>

\* lines 437-439: the assignment reads the channel's count again
RecDrop ==
    /\ prod.pc = "drop"
    /\ LET count == Clamp(prod.count, ring_buffer.channel[prod.c].count)
       IN  prod' = [prod EXCEPT
                      !.pc = "store", !.steps = @ + 1, !.count = count,
                      !.todo = Samples(count, prod.data, last_data[prod.c])]
    /\ overflows' = overflows + 1
    /\ wave' = WaveStatus(wave, wave.index[prod.c] - 1, 1)
    /\ hist' = [hist EXCEPT !.clamped[prod.c] = TRUE]
    /\ UNCHANGED <<nmVars, build, ratio, T, ring_buffer, last_data, last_time,
                   timing_error, underflows, dropouts, timeouts, cons,
                   stream, appended, popped>>

\* lines 447-495: one iteration of an append loop, or the end of the loop
RecStore ==
    /\ prod.pc = "store"
    /\ IF prod.todo = <<>>
       THEN /\ prod' = [prod EXCEPT !.pc = "addread", !.steps = @ + 1]
            /\ UNCHANGED <<ring_buffer, appended, wave>>
       ELSE /\ ring_buffer' = [ring_buffer EXCEPT
                                 !.channel[prod.c] = Store(@, Head(prod.todo))]
            /\ appended' = [appended EXCEPT
                              ![prod.c] = Append(@, Head(prod.todo))]
            /\ wave' = WaveStored(wave, prod.c,
                                  <<Recorded(prod.count, prod.data,
                                             last_data[prod.c])
                                        [prod.count - Len(prod.todo) + 1]>>)
            /\ prod' = [prod EXCEPT !.todo = Tail(@), !.steps = @ + 1]
    /\ UNCHANGED <<nmVars, build, ratio, T, last_data, last_time, timing_error,
                   underflows, overflows, dropouts, timeouts, cons, stream,
                   popped, hist>>

\* line 496: count += count, the load
RecAddRead ==
    /\ prod.pc = "addread"
    /\ prod' = [prod EXCEPT !.pc = "addwrite", !.steps = @ + 1,
                            !.reg = ring_buffer.channel[prod.c].count]
    /\ UNCHANGED <<nmVars, wave, build, ratio, T, ring_buffer, last_data, last_time,
                   timing_error, underflows, overflows, dropouts, timeouts,
                   cons, stream, appended, popped, hist>>

\* line 496: count += count, the store
RecAddWrite ==
    /\ prod.pc = "addwrite"
    /\ ring_buffer' = [ring_buffer EXCEPT
                         !.channel[prod.c].count = prod.reg + prod.count]
    /\ prod' = [prod EXCEPT !.pc = "unlock", !.steps = @ + 1]
    /\ UNCHANGED <<nmVars, wave, build, ratio, T, last_data, last_time, timing_error,
                   underflows, overflows, dropouts, timeouts, cons, stream,
                   appended, popped, hist>>

\* line 501: release the lock
RecUnlock ==
    /\ prod.pc = "unlock"
    /\ ring_buffer' = [ring_buffer EXCEPT !.lock = 0]
    /\ prod' = [prod EXCEPT !.pc = "last", !.steps = @ + 1]
    /\ UNCHANGED <<nmVars, wave, build, ratio, T, last_data, last_time,
                   timing_error, underflows, overflows, dropouts, timeouts,
                   cons, stream, appended, popped, hist>>

---------------------------------------------------------------------------
(* build "flag": paCallback (lines 207-271), one step per access to memory *)
(* shared with cromemco_d7a_record                                         *)

\* stream[out] = slot, out++
Write(slot) == [stream EXCEPT ![cons.out + 1] = slot]

\* lines 239-246: the frames of silence put in front
PaGap(frames, max) == IF max < frames THEN frames - max ELSE 0

\* the loop control of lines 250-265 after one slot of channel c is done
NextSlot(cn) ==
    IF cn.c + 1 < NUM_CHANNELS
    THEN [cn EXCEPT !.pc = "test", !.c = @ + 1, !.out = @ + 1]
    ELSE [cn EXCEPT !.pc = IF cn.i + 1 < cn.frames THEN "test" ELSE "unlock",
                    !.c = 0, !.i = @ + 1, !.out = @ + 1]

\* line 224: return if the ring buffer is in use or nothing is asked for
PaBegin(frames) ==
    /\ build = "flag"
    /\ cons.pc = "idle"
    /\ hist.cb < MaxCb
    /\ hist' = [hist EXCEPT !.cb = @ + 1, !.req = frames * NUM_CHANNELS]
    /\ stream' = Unwritten(frames * NUM_CHANNELS)
    /\ IF ring_buffer.lock # 0 \/ frames = 0
       THEN cons' = ConsIdle
       ELSE cons' = [ConsIdle EXCEPT !.pc = "lock", !.frames = frames]
    /\ UNCHANGED <<nmVars, wave, build, ratio, T, ring_buffer, last_data, last_time,
                   timing_error, underflows, overflows, dropouts, timeouts,
                   prod, appended, popped>>

\* line 227
PaLock ==
    /\ cons.pc = "lock"
    /\ ring_buffer' = [ring_buffer EXCEPT !.lock = 1]
    /\ cons' = [cons EXCEPT !.pc = "first"]
    /\ UNCHANGED <<nmVars, wave, build, ratio, T, last_data, last_time, timing_error,
                   underflows, overflows, dropouts, timeouts, prod, stream,
                   appended, popped, hist>>

\* lines 229-235: i = 0; special handling for a partially filled ring
\* buffer begins with max = 0
PaFirst ==
    /\ cons.pc = "first"
    /\ cons' = IF ring_buffer.last_count = 0
               THEN [cons EXCEPT !.pc = "count", !.c = 0, !.max = 0]
               ELSE [cons EXCEPT !.pc = "test"]
    /\ UNCHANGED <<nmVars, wave, build, ratio, T, ring_buffer, last_data, last_time,
                   timing_error, underflows, overflows, dropouts, timeouts,
                   prod, stream, appended, popped, hist>>

\* lines 236-237: one turn of the loop over the channels reads one count
PaCount ==
    /\ cons.pc = "count"
    /\ LET count == ring_buffer.channel[cons.c].count
           max == IF count > cons.max THEN count ELSE cons.max
       IN  cons' = IF cons.c + 1 < NUM_CHANNELS
                   THEN [cons EXCEPT !.c = @ + 1, !.max = max]
                   ELSE [cons EXCEPT !.pc = "pad", !.c = 0, !.max = max]
    /\ UNCHANGED <<nmVars, wave, build, ratio, T, ring_buffer, last_data, last_time,
                   timing_error, underflows, overflows, dropouts, timeouts,
                   prod, stream, appended, popped, hist>>

\* lines 238-246: last_count = max; gap frames of silence
PaPad ==
    /\ cons.pc = "pad"
    /\ LET gap == PaGap(cons.frames, cons.max)
       IN  /\ ring_buffer' = [ring_buffer EXCEPT !.last_count = cons.max]
           /\ stream' = Pad(<<>>, gap * NUM_CHANNELS, ring_buffer.channel)
                          \o SubSeq(stream, gap * NUM_CHANNELS + 1, Len(stream))
           /\ cons' = [cons EXCEPT
                          !.pc = IF gap < cons.frames THEN "test" ELSE "unlock",
                          !.i = gap, !.max = 0, !.out = gap * NUM_CHANNELS]
    /\ UNCHANGED <<nmVars, wave, build, ratio, T, last_data, last_time, timing_error,
                   underflows, overflows, dropouts, timeouts, prod, appended,
                   popped, hist>>

\* line 252: is the channel empty?
PaTest ==
    /\ cons.pc = "test"
    /\ IF ring_buffer.channel[cons.c].count = 0
       THEN /\ stream' = Write(Silence("empty"))
            /\ cons' = NextSlot(cons)
       ELSE /\ cons' = [cons EXCEPT !.pc = "read"]
            /\ UNCHANGED stream
    /\ UNCHANGED <<nmVars, wave, build, ratio, T, ring_buffer, last_data, last_time,
                   timing_error, underflows, overflows, dropouts, timeouts,
                   prod, appended, popped, hist>>

\* line 257: copy the sample at start
PaRead ==
    /\ cons.pc = "read"
    /\ LET ch == ring_buffer.channel[cons.c]
       IN  /\ stream' = Write(Sample(ch.sample[ch.start]))
           /\ popped' = [popped EXCEPT ![cons.c] = Append(@, ch.sample[ch.start])]
    /\ cons' = [cons EXCEPT !.pc = "decread"]
    /\ UNCHANGED <<nmVars, wave, build, ratio, T, ring_buffer, last_data, last_time,
                   timing_error, underflows, overflows, dropouts, timeouts,
                   prod, appended, hist>>

\* line 258: count--, the load
PaDecRead ==
    /\ cons.pc = "decread"
    /\ cons' = [cons EXCEPT !.pc = "decwrite",
                            !.reg = ring_buffer.channel[cons.c].count]
    /\ UNCHANGED <<nmVars, wave, build, ratio, T, ring_buffer, last_data, last_time,
                   timing_error, underflows, overflows, dropouts, timeouts,
                   prod, stream, appended, popped, hist>>

\* lines 258-261: count--, the store; start++ with wrap-around
PaDecWrite ==
    /\ cons.pc = "decwrite"
    /\ ring_buffer' = [ring_buffer EXCEPT
                         !.channel[cons.c].count = cons.reg - 1,
                         !.channel[cons.c].start = Advance(@)]
    /\ cons' = NextSlot(cons)
    /\ UNCHANGED <<nmVars, wave, build, ratio, T, last_data, last_time, timing_error,
                   underflows, overflows, dropouts, timeouts, prod, stream,
                   appended, popped, hist>>

\* line 268
PaUnlock ==
    /\ cons.pc = "unlock"
    /\ ring_buffer' = [ring_buffer EXCEPT !.lock = 0]
    /\ cons' = ConsIdle
    /\ prod' = [prod EXCEPT !.held = FALSE]
    /\ UNCHANGED <<nmVars, wave, build, ratio, T, last_data, last_time, timing_error,
                   underflows, overflows, dropouts, timeouts, stream,
                   appended, popped, hist>>

RecStep ==
    \/ RecSpin \/ RecCheck \/ RecUnder \/ RecClamp \/ RecDrop
    \/ RecStore \/ RecAddRead \/ RecAddWrite \/ RecUnlock

PaStep ==
    \/ PaLock \/ PaFirst \/ PaCount \/ PaPad \/ PaTest \/ PaRead \/ PaDecRead \/ PaDecWrite
    \/ PaUnlock

InitFlag == build = "flag" /\ InitCommon

NextFlag ==
    \/ \E dt \in DeltaT : CpuRun(dt)
    \/ \E port \in Ports, data \in Data : RecBegin(port, data)
    \/ RecStep
    \/ RecReturn
    \/ \E f \in Frames : PaBegin(f)
    \/ PaStep

SpecFlag == InitFlag /\ [][NextFlag]_vars

Next ==
    \/ \E dt \in DeltaT : CpuRun(dt)
    \/ \E port \in Ports, data \in Data : RecBegin(port, data)
    \/ RecLocked
    \/ RecReturn
    \/ \E f \in Frames : SdlCallback(f * NUM_CHANNELS)

Spec == Init /\ [][Next]_vars

(* build "sdl" with a sample rate of one output sample per 5 T-states, the *)
(* D+7A being written once per output-sample period                        *)
EvenRatio == <<1, 5>>

InitEven ==
    build = "sdl" /\ ratio = EvenRatio /\ InitDevice /\ D7aRunning /\ NmIdle

SpecEven == InitEven /\ [][Next]_vars

(* either build *)
\* build "sdl" with recording enabled: d7a_recording_limit entries
RecLimit == 6

\* cromemco_d7a_init with d7a_recording_limit == RecLimit and malloc
\* succeeding
InitRec ==
    /\ build = "sdl"
    /\ ratio \in Ratios
    /\ InitDevice
    /\ wave = WaveAlloc([WaveOff EXCEPT !.limit = RecLimit], "alloc")
    /\ d7a = [pc |-> "run", sink |-> TRUE, file |-> "none", rate |-> 22050,
              header |-> NoHeader]
    /\ NmIdle

SpecRec == InitRec /\ [][Next]_vars

InitAll == build \in {"sdl", "flag"} /\ InitCommon

NextAll == Next \/ NextFlag

SpecAll == InitAll /\ [][NextAll]_vars

---------------------------------------------------------------------------
(* The Noisemaker's generators, one at a time                              *)

\* both devices initialised, no port of the Noisemaker written yet
InitPsg ==
    /\ build = "sdl"
    /\ ratio = <<1, 2>>
    /\ InitDevice
    /\ D7aRunning
    /\ psg = PreparedChips(NmRunning.rate)
    /\ sel = [p \in Chips |-> 0]
    /\ nm = NmRunning

(* tone generator: one channel of the first chip, its two period registers *)

MaxFine == 3
MaxCoarse == 1

\* obs.index is the channel looked at; since counts the ticks since its
\* latest inversion, settled says that the period has not been written
\* since that inversion, last is the latest distance between two inversions
\* measured with the period untouched (0: none yet)
InitTone ==
    /\ InitPsg
    /\ \E i \in 0 .. TONE_CHANNELS - 1 :
           obs = [index |-> i, since |-> 0, settled |-> FALSE, last |-> 0]

\* ads_noisemaker_out on port 0 or 1, one step of it: select one of the
\* channel's period registers, or write the selected one
ToneOut(port, data) ==
    /\ MayOut(nm.out, port, data)
    /\ port \in {0, 1}
    /\ port = 0 => data \in {2 * obs.index, 2 * obs.index + 1}
    /\ port = 1 => data \in 0 .. (IF sel[1] % 2 = 0 THEN MaxFine ELSE MaxCoarse)
    /\ LET r == ads_noisemaker_out(psg, sel, nm.out, port, data)
       IN  /\ psg' = r.psg
           /\ sel' = r.sel
           /\ nm' = [nm EXCEPT !.out = r.out]
           /\ obs' = IF r.psg = psg /\ r.out.pc = "idle" /\ nm.out.pc = "idle"
                     THEN obs
                     ELSE [obs EXCEPT !.settled = FALSE, !.since = 0,
                                      !.last = 0]
    /\ UNCHANGED d7aVars

\* update_mixer line 305: one chip tick of the channel's tone generator
ToneTick ==
    /\ LET ay == update_tone(psg[1], obs.index)
           inverted == ay.channels[obs.index].tone
                           # psg[1].channels[obs.index].tone
       IN  /\ psg' = [psg EXCEPT ![1] = ay]
           /\ obs' = IF inverted
                     THEN [obs EXCEPT !.since = 0, !.settled = TRUE,
                                      !.last = IF obs.settled
                                               THEN obs.since + 1 ELSE @]
                     ELSE [obs EXCEPT !.since = IF obs.settled
                                                THEN @ + 1 ELSE @]
    /\ UNCHANGED <<d7aVars, sel, nm>>

NextTone ==
    \/ \E port \in {0, 1}, data \in 0 .. 2 * TONE_CHANNELS : ToneOut(port, data)
    \/ ToneTick

SpecTone == InitTone /\ [][NextTone]_vars

(* envelope generator of the first chip: registers 11, 12 and 13.  A       *)
(* behaviour begins with the chip as configured, or after a write of a     *)
(* shape to register 13 and a number of envelope steps that no port write  *)
(* has disturbed, and follows the next chip ticks step by step, with port  *)
(* writes of the CPU thread in between.                                    *)

MaxEnvFine == 2
MaxEnvCoarse == 0
MaxEnvOut == 2
MaxEnvTicks == 2

\* the shapes written and the envelope steps made before a behaviour
\* begins: a rising ramp about to wrap, a falling and rising one about to
\* turn, a falling one about to hold at the top
EnvStarts == {<<12, 31>>, <<10, 31>>, <<11, 31>>}

\* no segment function fetched yet
NoCall == [fn |-> "none", shape |-> 0, segment |-> 0, envelope |-> 0]

\* ads_noisemaker_out(port, data) from its first statement to its return,
\* with no step of another thread in between
RECURSIVE OutAlone(_, _, _)
OutAlone(s, port, data) ==
    LET r == ads_noisemaker_out(s.psg, s.sel, s.out, port, data)
    IN  IF r.out.pc = "idle" THEN r ELSE OutAlone(r, port, data)

\* update_envelope from s on to its return, taken alone
RECURSIVE EnvelopeAlone(_)
EnvelopeAlone(s) ==
    IF s.t.pc = "zero" THEN s.ay
    ELSE EnvelopeAlone(update_envelope(s.ay, s.t))

\* n calls of update_envelope on a chip, taken alone: four parts of at
\* most q calls one after the other, each evaluated to the end (a value
\* equals itself) before the next begins
RECURSIVE EnvelopesAlone(_, _)
EnvelopesAlone(ay, n) ==
    CASE n <= 0 -> ay
      [] n = 1 -> EnvelopeAlone([ay |-> ay,
                                 t |-> [CbIdle EXCEPT !.pc = "counter",
                                                      !.p = 1]])
      [] OTHER ->
           LET q == (n + 3) \div 4
               a == EnvelopesAlone(ay, q)
               b == EnvelopesAlone(a, Min(q, n - q))
               c == EnvelopesAlone(b, Min(q, n - 2 * q))
           IN  IF ay = ay /\ a = a /\ b = b /\ c = c
               THEN EnvelopesAlone(c, n - 3 * q) ELSE ay

\* the board after register 13 of the first chip was selected and written
\* with shape
ShapeSet(shape) ==
    OutAlone(OutAlone([psg |-> PreparedChips(NmRunning.rate),
                       sel |-> [p \in Chips |-> 0], out |-> OutIdle],
                      0, 13),
             1, shape)

\* obs.ticks counts the chip ticks begun; obs.written: register 13 has been
\* written and no write to it is being made; obs.k: envelope steps that
\* have moved the level (the store of a slide) since that write, counted
\* modulo the 64 steps of two segments once past 127; obs.was: the
\* function the latest envelope step fetched, with the shape it was
\* fetched for and the segment index and level of that moment
InitEnv ==
    /\ build = "sdl"
    /\ ratio = <<1, 2>>
    /\ InitDevice
    /\ D7aRunning
    /\ nm = NmRunning
    /\ \/ /\ psg = PreparedChips(NmRunning.rate)
          /\ sel = [p \in Chips |-> 0]
          /\ obs = [ticks |-> 0, written |-> FALSE, k |-> 0, was |-> NoCall]
       \/ \E s \in EnvStarts :
              /\ psg = [ShapeSet(s[1]).psg EXCEPT
                            ![1] = EnvelopesAlone(@, s[2])]
              /\ sel = ShapeSet(s[1]).sel
              /\ obs = [ticks |-> 0, written |-> TRUE, k |-> s[2],
                        was |-> NoCall]

\* ads_noisemaker_out on port 0 or 1, one step of it: select one of the
\* envelope's registers, or write the selected one; nm.outs counts the
\* calls
EnvOut(port, data) ==
    /\ MayOut(nm.out, port, data)
    /\ nm.out.pc = "idle" => nm.outs < MaxEnvOut
    /\ port \in {0, 1}
    /\ port = 0 => data \in {11, 12, 13}
    /\ port = 1 => /\ sel[1] \in {11, 12, 13}
                   /\ sel[1] = 11 => data <= MaxEnvFine
                   /\ sel[1] = 12 => data <= MaxEnvCoarse
    /\ LET r == ads_noisemaker_out(psg, sel, nm.out, port, data)
       IN  /\ psg' = r.psg
           /\ sel' = r.sel
           /\ nm' = [nm EXCEPT !.out = r.out,
                               !.outs = IF nm.out.pc = "idle" THEN @ + 1 ELSE @]
           /\ obs' = IF port = 1 /\ sel[1] = 13
                     THEN [obs EXCEPT !.written = r.out.pc = "idle", !.k = 0]
                     ELSE obs
    /\ UNCHANGED d7aVars

\* the step r of update_envelope is made, t being the thread before it
EnvTicked(t, r) ==
    /\ psg' = [psg EXCEPT ![1] = r.ay]
    /\ nm' = [nm EXCEPT !.cb = IF r.t.pc = "zero" THEN CbIdle ELSE r.t]
    /\ obs' = CASE t.pc = "segment" ->
                     [obs EXCEPT
                         !.was = [fn |-> Envelopes(t.shape,
                                                   psg[1].envelope_segment),
                                  shape |-> t.shape,
                                  segment |-> psg[1].envelope_segment,
                                  envelope |-> psg[1].envelope]]
                [] t.pc = "slid" ->
                     [obs EXCEPT !.k = IF @ + 1 >= 128 THEN 64 ELSE @ + 1]
                [] OTHER ->
                     [obs EXCEPT !.ticks = IF nm.cb.pc = "idle" THEN @ + 1
                                           ELSE @]
    /\ UNCHANGED <<d7aVars, sel>>

\* update_mixer line 302: the envelope generator's chip tick, one step of
\* update_envelope
EnvTick ==
    /\ nm.cb.pc = "idle" => obs.ticks < MaxEnvTicks
    /\ EnvTicked(Entered(nm.cb, "counter", 1),
                 update_envelope(psg[1], Entered(nm.cb, "counter", 1)))

NextEnv ==
    \/ \E port \in {0, 1}, data \in 0 .. 15 : EnvOut(port, data)
    \/ EnvTick

SpecEnv == InitEnv /\ [][NextEnv]_vars

(* noise generator of the first chip: register 6 *)

MaxNoisePeriod == 2
MaxNoiseTicks == 40

\* obs.ticks counts the chip ticks, obs.out is what the latest update_noise
\* returned, obs.settled says that the counter has been reset since the
\* period was last written
InitNoise ==
    /\ InitPsg
    /\ obs = [ticks |-> 0, out |-> 0, settled |-> FALSE]

\* ads_noisemaker_out on port 0 or 1: select register 6, or write it
NoisePortOut(port, data) ==
    /\ port \in {0, 1}
    /\ port = 0 => data = 6
    /\ port = 1 => sel[1] = 6 /\ data <= MaxNoisePeriod
    /\ MayOut(nm.out, port, data)
    /\ LET r == ads_noisemaker_out(psg, sel, nm.out, port, data)
       IN  /\ psg' = r.psg
           /\ sel' = r.sel
           /\ nm' = [nm EXCEPT !.out = r.out]
    /\ obs' = IF port = 1 THEN [obs EXCEPT !.settled = FALSE] ELSE obs
    /\ UNCHANGED d7aVars

\* update_mixer line 301: one chip tick of the noise generator
NoiseTick ==
    /\ obs.ticks < MaxNoiseTicks
    /\ LET ay == update_noise(psg[1])
       IN  /\ psg' = [psg EXCEPT ![1] = ay]
           /\ obs' = [ticks |-> obs.ticks + 1, out |-> NoiseOutput(ay),
                      settled |-> obs.settled \/ ay.noise_counter = 0]
    /\ UNCHANGED <<d7aVars, sel, nm>>

NextNoise ==
    \/ \E port \in {0, 1}, data \in 0 .. 6 : NoisePortOut(port, data)
    \/ NoiseTick

SpecNoise == InitNoise /\ [][NextNoise]_vars

(* noise shift register of the first chip over all of its cycle: chip   *)
(* ticks without a bound, register 6 written with 0 or 1                 *)

InitLfsr ==
    /\ InitPsg
    /\ obs = ObsNone

\* ads_noisemaker_out on port 0 or 1: select register 6, or write it
LfsrOut(port, data) ==
    /\ port \in {0, 1}
    /\ port = 0 => data = 6
    /\ port = 1 => sel[1] = 6 /\ data \in {0, 1}
    /\ MayOut(nm.out, port, data)
    /\ LET r == ads_noisemaker_out(psg, sel, nm.out, port, data)
       IN  /\ psg' = r.psg
           /\ sel' = r.sel
           /\ nm' = [nm EXCEPT !.out = r.out]
    /\ UNCHANGED <<d7aVars, obs>>

\* update_mixer line 301: one chip tick of the noise generator
LfsrTick ==
    /\ psg' = [psg EXCEPT ![1] = update_noise(@)]
    /\ UNCHANGED <<d7aVars, sel, nm, obs>>

NextLfsr ==
    \/ \E port \in {0, 1}, data \in {0, 1, 6} : LfsrOut(port, data)
    \/ LfsrTick

SpecLfsr == InitLfsr /\ [][NextLfsr]_vars

(* FIR history of both chips: ay->fir, the window ayumi_process hands to *)
(* decimate.  A sub-sample is known by its serial number in the chip's   *)
(* stream of interpolated values (1, 2, ...; 0 is the memset zero).  A   *)
(* behaviour begins after a number of audio callbacks that no port write *)
(* has disturbed and follows the next callback step by step, with port   *)
(* writes of the CPU thread in between.                                  *)

\* the callbacks made before the one followed, and the port writes made
\* during it
FirStarts == {0, 22, 46}
MaxFirCb == 1
MaxFirOut == 1
FirData == {0, 5}

\* struct ayumi: double fir[FIR_SIZE * 2], zeroed by ayumi_configure
ZeroFir == [k \in 0 .. FIR_SIZE * 2 - 1 |-> 0]

\* line 467: fir[i] gets a sub-sample of call number n (n = 1 for the first
\* call), the loop's i going from 7 down to 0
FirStore(fir, base, i, n) ==
    [k \in DOMAIN fir |->
        IF k = base + i
        THEN DECIMATE_FACTOR * (n - 1) + (DECIMATE_FACTOR - i)
        ELSE fir[k]]

\* lines 453-468: the loop's stores from fir[i] down to fir[0]
RECURSIVE FirFill(_, _, _, _)
FirFill(fir, base, i, n) ==
    IF i < 0 THEN fir
    ELSE FirFill(FirStore(fir, base, i, n), base, i - 1, n)

\* lines 357-441: the entries x[0] .. x[FIR_SIZE - 1] decimate is handed
FirWindow(fir, base) == [j \in 0 .. FIR_SIZE - 1 |-> fir[base + j]]

\* the entries of ay->fir one call with this base reads or writes
FirTouched(base) == base .. base + FIR_SIZE - 1

\* ay->fir and the window of the latest call after one more call of
\* ayumi_process, h being those after done calls
FirCalled(h, done) ==
    LET base == FirBase(done % (FIR_SIZE \div DECIMATE_FACTOR - 1))
        filled == FirFill(h.fir, base, DECIMATE_FACTOR - 1, done + 1)
    IN  [fir |-> DecimateCopy(filled, base), win |-> FirWindow(filled, base)]

\* the same after calls more calls: four parts of at most q calls one
\* after the other, each evaluated to the end before the next begins
RECURSIVE FirAlone(_, _, _)
FirAlone(h, done, calls) ==
    CASE calls <= 0 -> h
      [] calls = 1 -> FirCalled(h, done)
      [] OTHER ->
           LET q == (calls + 3) \div 4
               a == FirAlone(h, done, q)
               b == FirAlone(a, done + q, Min(q, calls - q))
               c == FirAlone(b, done + 2 * q, Min(q, calls - 2 * q))
           IN  IF a = a /\ b = b /\ c = c
               THEN FirAlone(c, done + 3 * q, calls - 3 * q) ELSE h

\* lines 596-599 on one chip with no step of another thread in between
CallbackAlone(ay) ==
    LET after == Processed(ay)
    IN  IF after = after THEN DcRemoved(after) ELSE after

\* the same n times over: eight parts of at most q callbacks one after the
\* other, each evaluated to the end before the next begins
RECURSIVE CallbacksAlone(_, _)
CallbacksAlone(ay, n) ==
    CASE n <= 0 -> ay
      [] n = 1 -> CallbackAlone(ay)
      [] OTHER ->
           LET q == (n + 7) \div 8
               a == CallbacksAlone(ay, q)
               b == CallbacksAlone(a, Min(q, n - q))
               c == CallbacksAlone(b, Min(q, n - 2 * q))
               d == CallbacksAlone(c, Min(q, n - 3 * q))
               e == CallbacksAlone(d, Min(q, n - 4 * q))
               f == CallbacksAlone(e, Min(q, n - 5 * q))
               g == CallbacksAlone(f, Min(q, n - 6 * q))
           IN  IF /\ ay = ay /\ a = a /\ b = b /\ c = c
                  /\ d = d /\ e = e /\ f = f /\ g = g
               THEN CallbacksAlone(g, n - 7 * q) ELSE ay

\* obs.fir[p]: ay->fir of chip p; obs.calls[p]: the calls of ayumi_process
\* made on it; obs.win[p]: the window its latest call handed to decimate;
\* obs.wild: an entry outside the array was accessed
FirAfter(n) ==
    LET h == FirAlone([fir |-> ZeroFir, win |-> FirWindow(ZeroFir, 0)], 0, n)
        ay == CallbacksAlone(PreparedChips(NmRunning.rate)[1], n)
    IN  /\ psg = [p \in Chips |-> ay]
        /\ obs = [fir |-> [p \in Chips |-> h.fir],
                  calls |-> [p \in Chips |-> n],
                  win |-> [p \in Chips |-> h.win],
                  wild |-> FALSE]

InitFir ==
    /\ build = "sdl"
    /\ ratio = <<1, 2>>
    /\ InitDevice
    /\ D7aRunning
    /\ sel = [p \in Chips |-> 0]
    /\ nm = NmRunning
    /\ \E n \in FirStarts : FirAfter(n)

\* ads_noisemaker_out on port 1 or 3, one step of it: a write to register 0
\* of a chip; nm.outs counts the calls
FirOut(port, data) ==
    /\ MayOut(nm.out, port, data)
    /\ nm.out.pc = "idle" => nm.outs < MaxFirOut
    /\ LET r == ads_noisemaker_out(psg, sel, nm.out, port, data)
       IN  /\ psg' = r.psg
           /\ sel' = r.sel
           /\ nm' = [nm EXCEPT !.out = r.out,
                               !.outs = IF nm.out.pc = "idle" THEN @ + 1 ELSE @]
    /\ UNCHANGED <<d7aVars, obs>>

\* what the step of ayumi_process that the thread t makes on chip p does to
\* fir, by serial numbers
FirSeen(t, p) ==
    CASE t.pc = "sub" ->
           [obs EXCEPT !.fir[p] = FirStore(@, t.base, t.i, obs.calls[p] + 1),
                       !.wild = @ \/ t.base + t.i \notin DOMAIN obs.fir[p]]
      [] t.pc = "decimate" ->
           [obs EXCEPT !.fir[p] = DecimateCopy(@, t.base),
                       !.calls[p] = @ + 1,
                       !.win[p] = FirWindow(obs.fir[p], t.base),
                       !.wild = @ \/ ~(FirTouched(t.base)
                                          \subseteq DOMAIN obs.fir[p])]
      [] OTHER -> obs

\* the step r of the callback is made, t being the thread before it
FirStepped(t, r) ==
    /\ psg' = r.psg
    /\ nm' = r.nm
    /\ obs' = FirSeen(t, t.p)
    /\ UNCHANGED <<d7aVars, sel>>

\* sdl_audio_callback for one frame, one step of it: ayumi_process on the
\* first chip and the second, ayumi_remove_dc on both, lines 602-607;
\* nm.cbs counts the callbacks
FirCallback ==
    /\ nm.cb.pc = "idle" => nm.cbs < MaxFirCb
    /\ FirStepped(InCallback(nm.cb),
                  sdl_audio_callback(
                      psg,
                      [nm EXCEPT !.cb = InCallback(@),
                                 !.cbs = IF nm.cb.pc = "idle" THEN @ + 1
                                         ELSE @],
                      FALSE))

NextFir ==
    \/ \E port \in {1, 3}, data \in FirData : FirOut(port, data)
    \/ FirCallback

SpecFir == InitFir /\ [][NextFir]_vars

(* mixer of the first chip: registers 7, 8 and 13.  A behaviour begins  *)
(* with the chip as configured, or after a write of a shape to register *)
(* 13 and a number of chip ticks that no port write has disturbed, and  *)
(* follows the next chip tick step by step, with port writes of the CPU *)
(* thread in between.                                                    *)

MaxMixOut == 3
MaxMixTicks == 1

\* the shapes written and the chip ticks made before a behaviour begins: a
\* rising ramp at level 2 in its second lap; a rising and a falling ramp
\* about to wrap
MixStarts == {<<12, 34>>, <<12, 31>>, <<8, 31>>}

\* register numbers and values the CPU writes: all bits clear, bit 4 set
\* (noise of channel B off; envelope on with volume 0; shape 0), all bits
\* set (tone and noise of every channel off; envelope on with volume 15;
\* shape 15)
MixRegisters == {7, 8, 13}
MixData == {0, 16, 255}

\* update_mixer from s on to its return, taken alone
RECURSIVE MixerAlone(_)
MixerAlone(s) ==
    IF s.t.pc \in {"mixed", "fault"} THEN s.ay
    ELSE MixerAlone(update_mixer(s.ay, s.t))

\* n calls of update_mixer on a chip, taken alone: four parts of at most
\* q calls one after the other, each evaluated to the end before the next
\* begins
RECURSIVE MixersAlone(_, _)
MixersAlone(ay, n) ==
    CASE n <= 0 -> ay
      [] n = 1 -> MixerAlone([ay |-> ay,
                              t |-> [CbIdle EXCEPT !.pc = "noise", !.p = 1]])
      [] OTHER ->
           LET q == (n + 3) \div 4
               a == MixersAlone(ay, q)
               b == MixersAlone(a, Min(q, n - q))
               c == MixersAlone(b, Min(q, n - 2 * q))
           IN  IF ay = ay /\ a = a /\ b = b /\ c = c
               THEN MixersAlone(c, n - 3 * q) ELSE ay

\* nothing read yet
NoRead ==
    [noise |-> 0, envelope |-> 0, tone |-> 0, t_off |-> 0, n_off |-> 0,
     e_on |-> 0, volume |-> 0]

\* obs.ticks counts the chip ticks begun; obs.read holds what the tick has
\* read so far: the noise bit and the envelope level, and for the channel
\* it is at the tone bit, t_off, n_off, e_on and volume
InitMix ==
    /\ build = "sdl"
    /\ ratio = <<1, 2>>
    /\ InitDevice
    /\ D7aRunning
    /\ nm = NmRunning
    /\ obs = [ticks |-> 0, read |-> NoRead]
    /\ \/ /\ psg = PreparedChips(NmRunning.rate)
          /\ sel = [p \in Chips |-> 0]
       \/ \E s \in MixStarts :
              /\ psg = [ShapeSet(s[1]).psg EXCEPT ![1] = MixersAlone(@, s[2])]
              /\ sel = ShapeSet(s[1]).sel

\* ads_noisemaker_out on port 0 or 1, one step of it: select a register,
\* or write it; nm.outs counts the calls
MixOut(port, data) ==
    /\ MayOut(nm.out, port, data)
    /\ nm.out.pc = "idle" => nm.outs < MaxMixOut
    /\ port \in {0, 1}
    /\ port = 0 => data \in MixRegisters
    /\ port = 1 => data \in MixData
    /\ LET r == ads_noisemaker_out(psg, sel, nm.out, port, data)
       IN  /\ psg' = r.psg
           /\ sel' = r.sel
           /\ nm' = [nm EXCEPT !.out = r.out,
                               !.outs = IF nm.out.pc = "idle" THEN @ + 1 ELSE @]
    /\ UNCHANGED <<d7aVars, obs>>

\* what the step of update_mixer that the thread t makes on the chip ay
\* reads, r being the step's result
MixRead(rd, t, ay, r) ==
    CASE t.pc = "noise" -> NoRead
      [] t.pc = "n_out" -> [rd EXCEPT !.noise = r.t.noise]
      [] t.pc = "level" -> [rd EXCEPT !.envelope = ay.envelope]
      [] t.pc = "tone" ->
           [rd EXCEPT !.tone = r.t.out, !.t_off = 0, !.n_off = 0, !.e_on = 0,
                      !.volume = 0]
      [] t.pc = "t_off" -> [rd EXCEPT !.t_off = ay.channels[t.ch].t_off]
      [] t.pc = "n_off" -> [rd EXCEPT !.n_off = ay.channels[t.ch].n_off]
      [] t.pc = "e_on" -> [rd EXCEPT !.e_on = ay.channels[t.ch].e_on]
      [] t.pc = "volume" -> [rd EXCEPT !.volume = ay.channels[t.ch].volume]
      [] OTHER -> rd

\* the step r of update_mixer is made on the first chip, t being the thread
\* before it
MixSeen(t, r) ==
    /\ psg' = [psg EXCEPT ![1] = r.ay]
    /\ nm' = [nm EXCEPT !.cb = IF r.t.pc = "mixed" THEN CbIdle ELSE r.t]
    /\ obs' = [ticks |-> IF nm.cb.pc = "idle" THEN obs.ticks + 1
                         ELSE obs.ticks,
               read |-> MixRead(obs.read, t, psg[1], r)]
    /\ UNCHANGED <<d7aVars, sel>>

\* the step r of update_mixer is made on chip p; the tick is over when
\* update_mixer returns
MixTicked(p, r) ==
    /\ psg' = [psg EXCEPT ![p] = r.ay]
    /\ nm' = [nm EXCEPT !.cb = IF r.t.pc = "mixed" THEN CbIdle ELSE r.t]
    /\ obs' = [obs EXCEPT !.ticks = IF nm.cb.pc = "idle" THEN @ + 1 ELSE @]
    /\ UNCHANGED <<d7aVars, sel>>

\* ayumi_process line 460: a chip tick of the first chip, one step of
\* update_mixer
MixTick ==
    /\ nm.cb.pc = "idle" => obs.ticks < MaxMixTicks
    /\ MixSeen(Entered(nm.cb, "noise", 1),
               update_mixer(psg[1], Entered(nm.cb, "noise", 1)))

NextMix ==
    \/ \E port \in {0, 1}, data \in MixRegisters \cup MixData : MixOut(port, data)
    \/ MixTick

SpecMix == InitMix /\ [][NextMix]_vars

(* the sixteen registers of both chips, with chip ticks in between *)

MaxRegOut == 2
MaxRegTicks == 1

\* bytes the CPU writes: every register number (16 for register 0), and
\* values with all bits clear, bits 0, 2 and 4 set, all bits set
RegSelects == 1 .. 16
RegData == {0, 21, 255}

\* obs.port and obs.data: the latest port write (port -1: none yet);
\* obs.ticks counts the chip ticks begun
InitReg ==
    /\ InitPsg
    /\ obs = [ticks |-> 0, port |-> -1, data |-> 0]

\* ads_noisemaker_out(port, data), any of the four ports, one step of it;
\* nm.outs counts the calls
RegOut(port, data) ==
    /\ MayOut(nm.out, port, data)
    /\ nm.out.pc = "idle" => nm.outs < MaxRegOut
    /\ port \in {0, 2} => data \in RegSelects
    /\ port \in {1, 3} => data \in RegData
    /\ LET r == ads_noisemaker_out(psg, sel, nm.out, port, data)
       IN  /\ psg' = r.psg
           /\ sel' = r.sel
           /\ nm' = [nm EXCEPT !.out = r.out,
                               !.outs = IF nm.out.pc = "idle" THEN @ + 1 ELSE @]
    /\ obs' = [obs EXCEPT !.port = port, !.data = data]
    /\ UNCHANGED d7aVars

\* ayumi_process line 460: a chip tick of chip p, one step of update_mixer
RegTick(p) ==
    /\ IF nm.cb.pc = "idle" THEN obs.ticks < MaxRegTicks ELSE p = nm.cb.p
    /\ MixTicked(p, update_mixer(psg[p], Entered(nm.cb, "noise", p)))

NextReg ==
    \/ \E port \in 0 .. 3, data \in RegSelects \cup RegData : RegOut(port, data)
    \/ \E p \in Chips : RegTick(p)

SpecReg == InitReg /\ [][NextReg]_vars

(* the port interface of both chips *)

MaxOut == 3
MaxOutTicks == 1

\* bytes the CPU writes: register numbers and values with all bits clear,
\* one bit set, all bits set
PsgData == {0, 1, 6, 11, 12, 13, 255}

\* obs.ticks counts the chip ticks begun
InitOut ==
    /\ InitPsg
    /\ obs = [ticks |-> 0]

\* ads_noisemaker_out(port, data), any of the four ports, one step of it;
\* nm.outs counts the calls
PsgOut(port, data) ==
    /\ MayOut(nm.out, port, data)
    /\ nm.out.pc = "idle" => nm.outs < MaxOut
    /\ LET r == ads_noisemaker_out(psg, sel, nm.out, port, data)
       IN  /\ psg' = r.psg
           /\ sel' = r.sel
           /\ nm' = [nm EXCEPT !.out = r.out,
                               !.outs = IF nm.out.pc = "idle" THEN @ + 1 ELSE @]
    /\ UNCHANGED <<d7aVars, obs>>

\* ayumi_process line 460: a chip tick of the audio thread on chip p, one
\* step of update_mixer
PsgTick(p) ==
    /\ IF nm.cb.pc = "idle" THEN obs.ticks < MaxOutTicks ELSE p = nm.cb.p
    /\ MixTicked(p, update_mixer(psg[p], Entered(nm.cb, "noise", p)))

NextOut ==
    \/ \E port \in 0 .. 3, data \in PsgData : PsgOut(port, data)
    \/ \E p \in Chips : PsgTick(p)

SpecOut == InitOut /\ [][NextOut]_vars

(* DC filter of the first chip *)

\* values of ay->sample handed to the filter: 2, -3 and 0.1
DcValues == {DFromInt(2), DFromInt(-3), Dec(<<1>>)}

\* the first MaxDcFree values are chosen freely, the same value is fed from
\* then on; MaxDcExtra feeds are made beyond DC_FILTER_SIZE equal ones
MaxDcFree == 2
MaxDcExtra == 2

\* obs.v: the value fed last; obs.run: how many times in a row it has been
\* fed; obs.fed: the number of values fed
InitDc ==
    /\ InitPsg
    /\ obs = [v |-> DZero, run |-> 0, fed |-> 0]

\* sdl_audio_callback lines 598-599: ayumi_remove_dc on a chip whose
\* ayumi_process has left the value x in ay->sample
DcFeed(x) ==
    /\ obs.fed < MaxDcFree \/ x = obs.v
    /\ obs.run < DC_FILTER_SIZE + MaxDcExtra
    /\ psg' = [psg EXCEPT ![1] = DcRemoved([@ EXCEPT !.sample = x])]
    /\ obs' = [v |-> x,
               run |-> IF obs.v = x THEN obs.run + 1 ELSE 1,
               fed |-> obs.fed + 1]
    /\ UNCHANGED <<d7aVars, sel, nm>>

NextDc == \E x \in DcValues : DcFeed(x)

SpecDc == InitDc /\ [][NextDc]_vars

---------------------------------------------------------------------------
(* Life cycle of the two devices, build "sdl": init, port writes, audio    *)
(* callbacks on the audio thread, off.  The devices share no variable; a   *)
(* behaviour follows one of them (obs.device) from before its init.        *)

MaxLimit == 3
MaxLifeOut == 1
MaxNmCb == 1
MaxFrames == 1
MaxOvertaken == 1

\* bytes written to the Noisemaker's ports
LifeData == {13}

\* T-states the CPU runs between two writes to the D+7A: one output sample,
\* or six, which is a dropout
LifeRuns == {5, 30}

\* what malloc can return
Malloc == {"alloc", "null"}

InitLife ==
    /\ build = "sdl"
    /\ ratio = EvenRatio
    /\ InitDevice
    /\ psg = [p \in Chips |-> ZeroChip]
    /\ sel = [p \in Chips |-> 0]
    /\ \E dev \in {"d7a", "nm"}, limit \in {0, MaxLimit},
          file \in {"none", "ok", "fail"}, rate \in SampleRates :
           /\ obs = [device |-> dev, last |-> "cpu", overtaken |-> 0,
                     most |-> MaxOvertaken]
           /\ wave = IF dev = "d7a" THEN [WaveOff EXCEPT !.limit = limit]
                     ELSE WaveOff
           /\ d7a = IF dev = "d7a"
                    THEN [pc |-> "off", sink |-> FALSE, file |-> file,
                          rate |-> rate, header |-> NoHeader]
                    ELSE [pc |-> "off", sink |-> FALSE, file |-> "none",
                          rate |-> 22050, header |-> NoHeader]
           /\ nm = IF dev = "nm"
                   THEN [NmOff EXCEPT !.limit = limit, !.file = file,
                                      !.rate = rate]
                   ELSE NmOff

(* The two threads of the Noisemaker.  A thread is inside an operation     *)
(* (init, a port write, off; a callback) from its first step to its last;  *)
(* it is overtaken when the other thread steps while it is inside one and  *)
(* could step itself.  obs.last is the thread that made the latest step,   *)
(* obs.overtaken counts the times a thread was overtaken and obs.most is   *)
(* the most this may happen in the behaviour.                              *)

\* the CPU thread is inside an operation and its next step can be made
CpuInside ==
    \/ nm.out.pc # "idle"
    \/ nm.pc \in {"alloc", "size", "index", "chips", "data", "free"}
    \/ nm.pc = "stop" /\ nm.cb.pc = "idle"

\* the audio thread is inside a callback
AudioInside == nm.cb.pc \notin {"idle", "dead"}

\* a step of thread overtakes the other thread
Overtakes(thread) ==
    /\ obs.last # thread
    /\ IF thread = "cpu" THEN AudioInside ELSE CpuInside

\* thread may make a step
MayRun(thread) == Overtakes(thread) => obs.overtaken < obs.most

\* obs after a step of thread
Ran(thread) ==
    [obs EXCEPT !.last = thread,
                !.overtaken = IF Overtakes(thread) THEN @ + 1 ELSE @]

(* ADS Noisemaker, CPU thread *)

\* ads_noisemaker_init line 775: sdl_audio_init opens and starts the sink;
\* on failure init returns
NmInitSink(ok) ==
    /\ MayRun("cpu")
    /\ obs.device = "nm"
    /\ nm.pc = "off"
    /\ nm' = IF ok THEN [nm EXCEPT !.pc = "alloc", !.sink = TRUE]
             ELSE [nm EXCEPT !.pc = "failed"]
    /\ obs' = Ran("cpu")
    /\ UNCHANGED <<d7aVars, psg, sel>>

\* lines 789-793: size = 0; the buffer is what malloc returns
NmInitAlloc(got) ==
    /\ MayRun("cpu")
    /\ nm.pc = "alloc"
    /\ nm' = [nm EXCEPT !.pc = "size", !.size = 0,
                        !.buffer = IF nm.limit > 0 THEN got ELSE @]
    /\ obs' = Ran("cpu")
    /\ UNCHANGED <<d7aVars, psg, sel>>

\* line 794: size = noisemaker_recording_limit, whatever malloc returned
NmInitSize ==
    /\ MayRun("cpu")
    /\ nm.pc = "size"
    /\ nm' = [nm EXCEPT !.pc = "index",
                        !.size = IF nm.limit > 0 THEN nm.limit ELSE @]
    /\ obs' = Ran("cpu")
    /\ UNCHANGED <<d7aVars, psg, sel>>

\* line 796: index = 0
NmInitIndex ==
    /\ MayRun("cpu")
    /\ nm.pc = "index"
    /\ nm' = [nm EXCEPT !.pc = "chips", !.index = 0]
    /\ obs' = Ran("cpu")
    /\ UNCHANGED <<d7aVars, psg, sel>>

\* lines 799-804, one step of them; the direction of a memset is chosen
\* when it begins
NmInitChips(up) ==
    /\ MayRun("cpu")
    /\ nm.pc = "chips"
    /\ nm.k % ConfigureSteps # 0 \/ nm.k >= 2 * ConfigureSteps => up = nm.up
    /\ psg' = ads_noisemaker_init(psg, nm.rate, nm.k + 1, up)
    /\ nm' = IF nm.k + 1 < InitSteps
             THEN [nm EXCEPT !.k = @ + 1, !.up = up]
             ELSE [nm EXCEPT !.pc = "run", !.k = 0, !.up = TRUE]
    /\ obs' = Ran("cpu")
    /\ UNCHANGED <<d7aVars, sel>>

\* ads_noisemaker_out(port, data) on the CPU thread, one step of it, once
\* init has returned (with or without a sink); no lock is taken; nm.outs
\* counts the calls
NmWrite(port, data) ==
    /\ MayRun("cpu")
    /\ nm.pc \in {"run", "failed"}
    /\ MayOut(nm.out, port, data)
    /\ nm.out.pc = "idle" => nm.outs < MaxLifeOut
    /\ LET r == ads_noisemaker_out(psg, sel, nm.out, port, data)
       IN  /\ psg' = r.psg
           /\ sel' = r.sel
           /\ nm' = [nm EXCEPT !.out = r.out,
                               !.outs = IF nm.out.pc = "idle" THEN @ + 1 ELSE @,
                               !.raced = @ \/ (nm.cb.pc # "idle"
                                               /\ r.psg # psg)]
    /\ obs' = Ran("cpu")
    /\ UNCHANGED d7aVars

\* ads_noisemaker_off lines 836-862: the file is opened and the header
\* written; return if fopen fails
NmOffHeader ==
    /\ MayRun("cpu")
    /\ nm.pc = "run"
    /\ nm.out.pc = "idle"
    /\ nm' = IF nm.file # "none" /\ nm.buffer # "null"
             THEN IF nm.file = "fail"
                  THEN [nm EXCEPT !.pc = "done"]
                  ELSE [nm EXCEPT !.pc = "data",
                                  !.header = WavHeader(nm.rate, nm.index,
                                                       nm.size)]
             ELSE [nm EXCEPT !.pc = "free"]
    /\ obs' = Ran("cpu")
    /\ UNCHANGED <<d7aVars, psg, sel>>

\* lines 865-878: the loop for (i = 0; i < sound_board.index; i++) writes
\* the frames; it ends at the index it then finds
NmOffData ==
    /\ MayRun("cpu")
    /\ nm.pc = "data"
    /\ nm' = [nm EXCEPT !.pc = "free", !.written = nm.index]
    /\ obs' = Ran("cpu")
    /\ UNCHANGED <<d7aVars, psg, sel>>

\* line 881: free(sound_board.buffer)
NmOffFree ==
    /\ MayRun("cpu")
    /\ nm.pc = "free"
    /\ nm' = [nm EXCEPT !.pc = "stop",
                        !.buffer = IF @ = "alloc" THEN "freed" ELSE @]
    /\ obs' = Ran("cpu")
    /\ UNCHANGED <<d7aVars, psg, sel>>

\* line 888: sdl_audio_off; SDL_CloseAudioDevice returns once no callback
\* is running
NmOffStop ==
    /\ MayRun("cpu")
    /\ nm.pc = "stop"
    /\ nm.cb.pc = "idle"
    /\ nm' = [nm EXCEPT !.pc = "done", !.sink = FALSE]
    /\ obs' = Ran("cpu")
    /\ UNCHANGED <<d7aVars, psg, sel>>

(* ADS Noisemaker, audio thread: sdl_audio_callback, lines 582-613 *)

\* lines 591-593: a callback for len = 4 * frames bytes begins
NmCbBegin(frames) ==
    /\ MayRun("audio")
    /\ obs.device = "nm"
    /\ nm.sink
    /\ nm.cb.pc = "idle"
    /\ nm.cbs < MaxNmCb
    /\ nm' = [nm EXCEPT !.cbs = @ + 1,
                        !.cb = IF frames = 0 THEN CbIdle ELSE CbBegun(frames)]
    /\ obs' = Ran("audio")
    /\ UNCHANGED <<d7aVars, psg, sel>>

\* the step r of the callback is made
NmCbStepped(r) ==
    /\ MayRun("audio")
    /\ psg' = r.psg
    /\ nm' = r.nm
    /\ obs' = Ran("audio")
    /\ UNCHANGED <<d7aVars, sel>>

\* lines 596-597: ayumi_process of one chip, one step of it
NmCbProcess ==
    /\ nm.cb.pc \in ProcessPcs
    /\ NmCbStepped(sdl_audio_callback(psg, nm, FALSE))

\* lines 598-599: ayumi_remove_dc of one chip, one step of it
NmCbRemoveDc ==
    /\ nm.cb.pc \in RemoveDcPcs
    /\ NmCbStepped(sdl_audio_callback(psg, nm, FALSE))

\* lines 602-611: the frame goes to the stream and, if index < size, to the
\* recording buffer, one step
NmCbStore(dies) ==
    /\ nm.cb.pc \in FramePcs
    /\ dies => /\ nm.cb.pc \in {"store", "store2"}
               /\ nm.cb.buf # "null"
               /\ nm.buffer = "freed"
    /\ NmCbStepped(sdl_audio_callback(psg, nm, dies))

(* Cromemco D+7A, CPU thread *)

\* cromemco_d7a_init lines 534-539
D7aInitAlloc(got) ==
    /\ obs.device = "d7a"
    /\ d7a.pc = "off"
    /\ wave' = WaveAlloc(wave, got)
    /\ d7a' = [d7a EXCEPT !.pc = "ring"]
    /\ UNCHANGED <<build, ratio, T, ring_buffer, last_data, last_time,
                   timing_error, underflows, overflows, dropouts, timeouts,
                   prod, cons, stream, appended, popped, hist, psg, sel, nm,
                   obs>>

\* lines 541-549
D7aInitRing ==
    /\ d7a.pc = "ring"
    /\ ring_buffer' = [ring_buffer EXCEPT
                         !.last_count = 0,
                         !.channel = [c \in Chan |-> EmptyChannel]]
    /\ last_time' = [c \in Chan |-> 0]
    /\ timing_error' = [c \in Chan |-> DZero]
    /\ d7a' = [d7a EXCEPT !.pc = "sink"]
    /\ UNCHANGED <<build, ratio, T, last_data, underflows, overflows,
                   dropouts, timeouts, prod, cons, stream, appended, popped,
                   hist, wave, psg, sel, nm, obs>>

\* lines 551-581: the sink is opened last
D7aInitSink(ok) ==
    /\ d7a.pc = "sink"
    /\ d7a' = [d7a EXCEPT !.pc = "run", !.sink = ok]
    /\ UNCHANGED <<build, ratio, T, ring_buffer, last_data, last_time,
                   timing_error, underflows, overflows, dropouts, timeouts,
                   prod, cons, stream, appended, popped, hist, wave, psg,
                   sel, nm, obs>>

\* line 615: max_index
MaxIndex(index) ==
    LET over(c) == IF index[c] > 0 THEN index[c] ELSE 0
    IN  Max(over(0), over(1))

\* cromemco_d7a_off lines 614-659: the export
D7aOffExport ==
    /\ d7a.pc = "run"
    /\ prod.pc = "idle"
    /\ d7a' = IF d7a.file = "ok" /\ WaveOn(wave)
              THEN [d7a EXCEPT !.pc = "free",
                               !.header = WavHeader(d7a.rate,
                                                    MaxIndex(wave.index),
                                                    wave.limit)]
              ELSE [d7a EXCEPT !.pc = "free"]
    /\ UNCHANGED <<build, ratio, T, ring_buffer, last_data, last_time,
                   timing_error, underflows, overflows, dropouts, timeouts,
                   prod, cons, stream, appended, popped, hist, wave, psg,
                   sel, nm, obs>>

\* line 666: if (wave_buffer) free(wave_buffer).  After a status store at
\* index -1 (wave.wild) the size field of the chunk no longer holds what
\* malloc wrote there, and what free does is undefined: it finds an invalid
\* size or pointer and aborts the process (aborts), or it finds nothing
\* and releases the buffer, as it does for a chunk whose size field held
\* the stored status already
D7aOffFree(aborts) ==
    /\ d7a.pc = "free"
    /\ aborts => WaveOn(wave) /\ wave.wild
    /\ wave' = IF WaveOn(wave) /\ ~aborts
               THEN [wave EXCEPT !.buffer = "freed"] ELSE wave
    /\ d7a' = [d7a EXCEPT !.pc = IF aborts THEN "dead" ELSE "stop"]
    /\ UNCHANGED <<build, ratio, T, ring_buffer, last_data, last_time,
                   timing_error, underflows, overflows, dropouts, timeouts,
                   prod, cons, stream, appended, popped, hist, psg, sel, nm,
                   obs>>

\* line 669: sdl_audio_off
D7aOffStop ==
    /\ d7a.pc = "stop"
    /\ d7a' = [d7a EXCEPT !.pc = "done", !.sink = FALSE]
    /\ UNCHANGED <<build, ratio, T, ring_buffer, last_data, last_time,
                   timing_error, underflows, overflows, dropouts, timeouts,
                   prod, cons, stream, appended, popped, hist, wave, psg,
                   sel, nm, obs>>

\* the device's port writes come between init and off; its callback runs
\* while the sink is open
NextLife ==
    \/ \E ok \in BOOLEAN : NmInitSink(ok)
    \/ \E got \in Malloc : NmInitAlloc(got)
    \/ NmInitSize
    \/ NmInitIndex
    \/ \E up \in BOOLEAN : NmInitChips(up)
    \/ \E port \in {0, 1, 3}, data \in LifeData : NmWrite(port, data)
    \/ NmOffHeader
    \/ NmOffData
    \/ NmOffFree
    \/ NmOffStop
    \/ \E frames \in 0 .. MaxFrames : NmCbBegin(frames)
    \/ NmCbProcess
    \/ NmCbRemoveDc
    \/ \E dies \in BOOLEAN : NmCbStore(dies)
    \/ \E got \in Malloc : D7aInitAlloc(got)
    \/ D7aInitRing
    \/ \E ok \in BOOLEAN : D7aInitSink(ok)
    \/ \E dt \in LifeRuns : d7a.pc = "run" /\ CpuRun(dt)
    \/ \E port \in Ports, data \in {50} : d7a.pc = "run" /\ RecBegin(port, data)
    \/ RecLocked
    \/ RecReturn
    \/ \E f \in {1, 2} :
           d7a.sink /\ d7a.pc # "dead" /\ SdlCallback(f * NUM_CHANNELS)
    \/ D7aOffExport
    \/ \E aborts \in BOOLEAN : D7aOffFree(aborts)
    \/ D7aOffStop

SpecLife == InitLife /\ [][NextLife]_vars

---------------------------------------------------------------------------
(* ads_noisemaker_init against the audio thread: the sink is open from     *)
(* line 775 on, and callbacks run while the CPU thread sets the board and  *)
(* configures the chips, a thread being overtaken MaxInitOvertaken times   *)
(* at most.                                                                *)

MaxInitOvertaken == 3

InitRace ==
    /\ build = "sdl"
    /\ ratio = EvenRatio
    /\ InitDevice
    /\ psg = [p \in Chips |-> ZeroChip]
    /\ sel = [p \in Chips |-> 0]
    /\ wave = WaveOff
    /\ d7a = [pc |-> "off", sink |-> FALSE, file |-> "none", rate |-> 22050,
              header |-> NoHeader]
    /\ \E limit \in {0, MaxLimit} : nm = [NmOff EXCEPT !.limit = limit]
    /\ obs = [device |-> "nm", last |-> "cpu", overtaken |-> 0,
              most |-> MaxInitOvertaken]

NextRace ==
    \/ \E ok \in BOOLEAN : NmInitSink(ok)
    \/ \E got \in Malloc : NmInitAlloc(got)
    \/ NmInitSize
    \/ NmInitIndex
    \/ \E up \in BOOLEAN : NmInitChips(up)
    \/ \E frames \in 0 .. MaxFrames : NmCbBegin(frames)
    \/ NmCbProcess
    \/ NmCbRemoveDc
    \/ \E dies \in BOOLEAN : NmCbStore(dies)

SpecRace == InitRace /\ [][NextRace]_vars

\* ads_noisemaker_init leaves both shift registers seeded: once it has
\* returned and no callback is running, neither is 0.  A callback that has
\* read noise = 0 at line 231 before line 316 stores the seed, and makes
\* line 232 after it, shifts the seed out: the register is 0 and stays 0.
NoiseSeeded ==
    (nm.pc = "run" /\ nm.cb.pc = "idle") => \A p \in Chips : psg[p].noise # 0

---------------------------------------------------------------------------
(* Claims *)

Count(c) == ring_buffer.channel[c].count
Start(c) == ring_buffer.channel[c].start
End(c) == ring_buffer.channel[c].end

\* C1 (as stated): after every completed producer and consumer operation,
\* count == (end - start) mod RING_BUFFER_SIZE on every channel.
C1_CountIsEndMinusStart ==
    \A c \in Chan : Count(c) = (End(c) - Start(c)) % RING_BUFFER_SIZE

\* C1 (amended): after every completed producer and consumer operation, count
\* is congruent to end - start modulo RING_BUFFER_SIZE: it equals
\* (end - start) mod RING_BUFFER_SIZE while the channel is not full, and a
\* full channel has count == RING_BUFFER_SIZE with end == start.
C1_CountCongruent ==
    \A c \in Chan :
        /\ Count(c) < RING_BUFFER_SIZE
             => Count(c) = (End(c) - Start(c)) % RING_BUFFER_SIZE
        /\ Count(c) >= RING_BUFFER_SIZE
             => Count(c) = RING_BUFFER_SIZE /\ End(c) = Start(c)

\* a channel that was drained in part and then filled up again, its indexes
\* wrapped around
C1_Witness ==
    \E c \in Chan :
        /\ Count(c) = RING_BUFFER_SIZE
        /\ popped[c] # <<>>
        /\ Start(c) > 0

\* samples a record call in progress has stored but not yet added to count
InFlight(c) ==
    IF prod.pc \in {"store", "addread", "addwrite"} /\ prod.c = c
    THEN prod.count - Len(prod.todo) ELSE 0

\* C2: in either build every channel's count stays within
\* 0..RING_BUFFER_SIZE; the producer never stores a sample that would take
\* count beyond the capacity, and the consumer takes a sample (count--,
\* start++) only from a channel whose count is not 0.
C2_CountInRange ==
    \A c \in Chan :
        /\ Count(c) \in 0 .. RING_BUFFER_SIZE
        /\ Count(c) + InFlight(c) <= RING_BUFFER_SIZE
        /\ (cons.pc \in {"read", "decread", "decwrite"} /\ cons.c = c)
             => Count(c) > 0

\* build "flag": a write is adding its samples to the count of a channel
\* the callback has taken samples from, the callback being at work
C2_Witness ==
    /\ build = "flag" /\ prod.pc = "addwrite" /\ prod.count > 0
    /\ popped[prod.c] # <<>> /\ ConsInside

\* C3: build "flag": the producer and the consumer are never both between
\* taking and releasing ring_buffer.lock.
C3_MutualExclusion == ~(ProdInside /\ ConsInside)

\* C4 (as stated): build "flag": a write that finds the lock held by the
\* consumer all through its wait is aborted: timeouts goes up by exactly 1,
\* nothing is stored, and the channel's ring buffer and timing state are
\* what they were when the call began.
C4_TimeoutAborts ==
    [][(prod.pc = "check" /\ prod.held /\ prod'.pc # "check")
        => /\ prod'.pc = "idle"
           /\ timeouts' = timeouts + 1
           /\ appended' = appended
           /\ ring_buffer'.channel[prod.c] = ring_buffer.channel[prod.c]
           /\ last_time'[prod.c] = prod.was[1]
           /\ timing_error'[prod.c] = prod.was[2]]_vars

\* the call is at its append loop or at the comparisons before it (lines
\* 435-495), statements that wait for nothing
InAppend == prod.pc \in {"clamp", "drop", "store"}

\* the most steps one call can make: the wait, the longest append loop and
\* the eleven other statements
MaxSteps == SpinBudget + RING_BUFFER_SIZE + 11

\* C5: build "flag": a record call never waits: whatever the consumer does
\* its next step can be taken, the wait for the lock makes at most SpinBudget
\* iterations, an append loop at most RING_BUFFER_SIZE, and the call is over
\* after at most MaxSteps steps.
C5_BoundedCall ==
    /\ prod.pc # "idle"
         => \/ InAppend
            \/ ENABLED (RecSpin \/ RecCheck \/ RecUnder \/ RecAddRead
                        \/ RecAddWrite \/ RecUnlock \/ RecReturn)
    /\ prod.pc \in {"spin", "check"}
         => SpinBudget - prod.timeout \in 0 .. SpinBudget
    /\ Len(prod.todo) <= RING_BUFFER_SIZE
    /\ prod.steps <= MaxSteps

\* a call that ran its append loop to the end while the consumer sat in its
\* critical section
C5_Witness ==
    prod.pc = "unlock" /\ prod.count >= 5 /\ ConsInside /\ prod.held

\* C6: every completed callback with a non-zero request has written every
\* requested slot, each slot holding a sample taken from its channel, or 0
\* when that channel is empty.
C6_EverySlotFilled ==
    (cons.pc = "idle" /\ hist.req > 0)
        => /\ Len(stream) = hist.req
           /\ \A k \in 1 .. Len(stream) : stream[k].kind \in {"pop", "empty"}

\* C7: build "sdl": on every channel the samples the consumer has taken are
\* a prefix of the samples the producer has stored.
C7_Fifo == \A c \in Chan : IsPrefix(popped[c], appended[c])

\* a channel drained in part, the samples taken differing in value
C7_Witness ==
    \E c \in Chan :
        /\ Len(popped[c]) >= 2
        /\ popped[c][1] # popped[c][2]
        /\ Len(appended[c]) > Len(popped[c])

\* round(n * dt * ratio), halves rounded up
Round(n, dt) == (2 * n * dt * ratio[1] + ratio[2]) \div (2 * ratio[2])

\* C8: after n completed writes to a channel, each dt T-states after the one before,
\* dt * ratio not an integer, none of them clamped, the number of samples
\* stored is round(n * dt * ratio) give or take 1.
C8_DriftTotal ==
    \A c \in Chan :
        (/\ prod.pc = "idle"
         /\ hist.n[c] >= 1
         /\ hist.uniform[c]
         /\ ~hist.clamped[c]
         /\ (hist.dt[c] * ratio[1]) % ratio[2] # 0)
        => Abs(Len(appended[c]) - Round(hist.n[c], hist.dt[c])) <= 1

\* C9: build "sdl": a write that computes a whole beyond the free space it
\* finds when it has the lock stores exactly the free number of samples, counts one overflow and leaves
\* the channel full.
C9_OverflowClamps ==
    [][\A c \in Chan :
        (/\ prod.pc = "lock" /\ prod'.pc = "last" /\ prod.c = c
         /\ prod.count > RING_BUFFER_SIZE - Count(c))
        => /\ Len(appended'[c]) - Len(appended[c]) = RING_BUFFER_SIZE - Count(c)
           /\ overflows' = overflows + 1
           /\ ring_buffer'.channel[c].count = RING_BUFFER_SIZE]_vars

\* the write that found RING_BUFFER_SIZE - 1 samples and computed whole 5
C9_Witness ==
    /\ hist.w.whole = 5
    /\ hist.w.occupied = RING_BUFFER_SIZE - 1
    /\ Count(hist.w.c) = RING_BUFFER_SIZE
    /\ overflows = 1
    /\ Len(appended[hist.w.c]) = RING_BUFFER_SIZE

\* this step of the consumer found a channel empty and put silence in its slot
FoundEmpty ==
    \/ /\ build = "sdl" /\ hist'.cb # hist.cb
       /\ \E k \in 1 .. Len(stream') : stream'[k].kind = "empty"
    \/ /\ build = "flag" /\ cons.pc \in {"pad", "test"}
       /\ \E k \in 1 .. Len(stream') :
             stream'[k].kind = "empty" /\ stream[k].kind = "unwritten"

\* C10 (as stated): whenever the consumer finds a channel empty it puts
\* silence in the slot and the underflow counter goes up.
C10_ConsumerCountsUnderflow ==
    [][FoundEmpty
        => /\ \A k \in 1 .. Len(stream') :
                 stream'[k].kind = "empty" => stream'[k].val = 0
           /\ underflows' > underflows]_vars

\* the channel of the write that makes this step
WriterChan == prod.c

\* C10 (amended): whenever the consumer finds a channel empty it puts
\* silence in the slot and leaves the underflow counter alone; underflows
\* goes up, by exactly 1, only in cromemco_d7a_record, for a write that
\* finds its channel's count 0.
C10_ProducerCountsUnderflow ==
    [][/\ FoundEmpty
          => /\ \A k \in 1 .. Len(stream') :
                   stream'[k].kind = "empty" => stream'[k].val = 0
             /\ underflows' = underflows
       /\ underflows' # underflows
          => /\ underflows' = underflows + 1
             /\ prod.pc = (IF build = "sdl" THEN "lock" ELSE "under")
             /\ cons' = cons /\ stream' = stream
             /\ Count(WriterChan) = 0]_vars

\* a callback gave out a sample of one channel and silence for the other,
\* empty one, after the producer counted underflows
C10_Witness ==
    /\ cons.pc = "idle"
    /\ underflows > 0
    /\ \E k \in 1 .. Len(stream) : stream[k].kind = "empty"
    /\ \E k \in 1 .. Len(stream) : stream[k].kind = "pop"

---------------------------------------------------------------------------
(* Claims C11.. *)

\* C11 (as stated): after device init, N >= 2 writes to one channel (the
\* other channel untouched, the first write at T > 0), each exactly one
\* output-sample period after the one before, no callback having run, leave
\* that channel's count == N and the overflow, underflow, dropout and timeout
\* counters all 0.
C11_EvenWrites ==
    \A c \in Chan :
        (/\ prod.pc = "idle"
         /\ hist.base[c] > 0
         /\ hist.n[c] >= 1
         /\ \A d \in Chan \ {c} : hist.base[d] < 0
         /\ hist.cb = 0
         /\ hist.uniform[c]
         /\ hist.dt[c] * ratio[1] = ratio[2])
        => /\ Count(c) = hist.n[c] + 1
           /\ underflows = 0 /\ overflows = 0
           /\ dropouts = 0 /\ timeouts = 0

\* C16: with tone period p on a channel, two successive inversions of the
\* tone output with no period write in between are exactly max(p,1) chip
\* ticks apart and the next inversion is never overdue (so the square wave
\* has period 2*max(p,1) and 50% duty); with p = 0 the generator does what it
\* does with p = 1.
TonePeriod == psg[1].channels[obs.index].tone_period
ToneWith(period) ==
    LET ay == update_tone([psg[1] EXCEPT
                             !.channels[obs.index].tone_period = period],
                          obs.index)
    IN  <<ay.channels[obs.index].tone, ay.channels[obs.index].tone_counter>>
C16_ToneHalfPeriod ==
    /\ TonePeriod \in 0 .. 4095
    /\ obs.last # 0 => obs.last = Max(TonePeriod, 1)
    /\ obs.settled => obs.since < Max(TonePeriod, 1)
    /\ TonePeriod \in {0, 1} => ToneWith(0) = ToneWith(1)
C16_Witness ==
    /\ TonePeriod = 0
    /\ sel[1] % 2 = 0
    /\ obs.last = 1
    /\ obs.settled

\* the step is the last one of a chip tick of the audio thread
TickEnded == nm.cb.pc # "idle" /\ nm'.cb.pc = "idle"

\* the step is the last statement of a data write of the CPU thread
WriteEnded == nm.out.pc # "idle" /\ nm'.out.pc = "idle"

\* C18 (as stated): after configuration, after every chip tick and after
\* every register write, whatever the shape and the period, the envelope
\* level is an integer in 0..31.
C18_EnvelopeInRange ==
    /\ (nm.cb.pc = "idle" /\ nm.out.pc = "idle" /\ nm.outs = 0)
           => psg[1].envelope \in 0 .. 31
    /\ [][(TickEnded \/ WriteEnded) => psg'[1].envelope \in 0 .. 31]_vars

\* the canonical contour of shape s: the level after k envelope steps
Contour(s, k) ==
    LET phase == k \div 32
        falling == 31 - (k % 32)
        rising == k % 32
    IN  CASE s = 8 -> falling
          [] s = 12 -> rising
          [] s = 10 -> IF phase % 2 = 0 THEN falling ELSE rising
          [] s = 14 -> IF phase % 2 = 0 THEN rising ELSE falling
          [] s = 11 -> IF phase = 0 THEN falling ELSE 31
          [] s = 13 -> IF phase = 0 THEN rising ELSE 31
          [] s \in {4, 5, 6, 7, 15} -> IF phase = 0 THEN rising ELSE 0
          [] OTHER -> IF phase = 0 THEN falling ELSE 0

\* C19 (as stated): after a write of shape s to register 13 the envelope
\* level after k envelope steps is the canonical contour of s at k: 8
\* repeats the falling ramp 31..0, 12 the rising ramp 0..31, 10 and 14
\* alternate falling and rising ramps, 11 falls and holds at 31, 13 rises
\* and holds at 31, 0-3 and 9 fall and hold at 0, 4-7 and 15 rise and then
\* hold at 0.  The level is looked at between two chip ticks; an envelope
\* step that was being made when the write ended may count as made before
\* it or after it, so the level is to be the contour's at k or next to k.
C19_CanonicalContour ==
    (obs.written /\ nm.cb.pc = "idle")
        => \E j \in {obs.k - 1, obs.k, obs.k + 1} \cap Nat :
               psg[1].envelope = Contour(psg[1].envelope_shape, j)

\* C17 (as stated): after chip configuration and after any sequence of
\* register writes through the ports, on both chips every tone period is in
\* 1..4095, the noise period in 1..31 and the envelope period in 1..65535.
C17_PeriodsNeverZero ==
    \A p \in Chips :
        /\ \A i \in 0 .. TONE_CHANNELS - 1 :
               psg[p].channels[i].tone_period \in 1 .. 4095
        /\ psg[p].noise_period \in 1 .. 31
        /\ psg[p].envelope_period \in 1 .. 65535

\* x + y without rounding (the result need not be a double)
ExactAdd(x, y) ==
    IF x.m = <<>> THEN y
    ELSE IF y.m = <<>> THEN x
    ELSE LET e == IF x.e < y.e THEN x.e ELSE y.e
             a == NShl(x.m, x.e - e)
             b == NShl(y.m, y.e - e)
         IN  IF x.neg = y.neg THEN DExact(x.neg, NAdd(a, b), e)
             ELSE IF NCmp(a, b) >= 0 THEN DExact(x.neg, NSub(a, b), e)
             ELSE DExact(y.neg, NSub(b, a), e)

\* the sum of the entries of a delay line, without rounding: each value it
\* holds times the number of entries holding it
RECURSIVE DelaySumOver(_, _)
DelaySumOver(delay, values) ==
    IF values = {} THEN DZero
    ELSE LET v == CHOOSE w \in values : TRUE
             n == Cardinality({k \in DOMAIN delay : delay[k] = v})
         IN  ExactAdd(DExact(v.neg, NMul(v.m, NFromInt(n)), v.e),
                      DelaySumOver(delay, values \ {v}))

DelaySum(delay) == DelaySumOver(delay, {delay[k] : k \in DOMAIN delay})

\* the claim's epsilon for samples of magnitude 3 at most: 2^-40 for the
\* output, DC_FILTER_SIZE times as much for the sum
DcEpsilon == DExact(FALSE, <<1>>, -40)
DcSumEpsilon == DExact(FALSE, <<1>>, -30)

\* C20 (as stated): once the same value has been fed DC_FILTER_SIZE times
\* in a row, the filtered output is 0 within DcEpsilon; and at every step
\* the running sum equals the sum of the delay line's entries.
C20_SumIsExact ==
    /\ obs.run >= DC_FILTER_SIZE => DCmpAbs(psg[1].sample, DcEpsilon) <= 0
    /\ psg[1].dc.sum = DelaySum(psg[1].dc.delay)

\* C20 (amended): once the same value has been fed DC_FILTER_SIZE times in
\* a row (from the zeroed filter or after another input), the filtered
\* output is 0 within DcEpsilon; and at every step the running sum is the
\* sum of the delay line's entries within the rounding of the additions
\* made (DcSumEpsilon), not exactly.
C20_DcRemoved ==
    /\ obs.run >= DC_FILTER_SIZE => DCmpAbs(psg[1].sample, DcEpsilon) <= 0
    /\ DCmpAbs(ExactAdd(psg[1].dc.sum, DNeg(DelaySum(psg[1].dc.delay))),
               DcSumEpsilon) <= 0

\* -3 and then DC_FILTER_SIZE times 2: the line holds 2 only, the sum is
\* 2 * DC_FILTER_SIZE and the output exactly 0
C20_Witness ==
    /\ obs.run = DC_FILTER_SIZE
    /\ obs.fed = DC_FILTER_SIZE + 1
    /\ obs.v = DFromInt(2)
    /\ psg[1].dc.sum = DFromInt(2 * DC_FILTER_SIZE)
    /\ psg[1].sample = DZero
    /\ psg[1].dc_index = 1

\* C12 (as stated): in the shutdown of either device the audio sink is
\* closed before the recording buffer is freed, and no audio callback
\* stores into a recording buffer that has been freed.
C12_SinkStoppedBeforeFree ==
    /\ nm.buffer = "freed" => ~nm.sink
    /\ wave.buffer = "freed" => ~d7a.sink
    /\ nm.bad # "freed"
    /\ ~wave.bad

\* C13 (as stated): no register write on the CPU thread changes the state
\* of a chip while an audio callback is in progress.
C13_GeneratorsOneThread == ~nm.raced

\* C14 (as stated): when malloc of the recording buffer has failed at init,
\* nothing is ever stored into the missing buffer: the Noisemaker's callback
\* stores no frame and the D+7A's recording index does not move.
C14_NoCaptureWithoutBuffer ==
    /\ nm.buffer = "null" => nm.stored = 0 /\ nm.bad = "no"
    /\ wave.buffer = "null" => /\ \A c \in Chan : wave.index[c] = 0
                               /\ ~wave.bad

\* C15 (as stated): an exported header has sample_rate the configured rate,
\* byte_rate 4 * rate, block_align 4, bits_per_sample 16, and subchunk2_size
\* 4 * the number of stereo ticks captured and put into the file, whatever
\* the capacity of the recording.
C15_HeaderMatchesCapture ==
    /\ (nm.header # NoHeader /\ nm.pc \in {"free", "stop", "done"}) =>
           /\ nm.header.sample_rate = nm.rate
           /\ nm.header.byte_rate = 4 * nm.rate
           /\ nm.header.block_align = 4
           /\ nm.header.bits_per_sample = 16
           /\ nm.header.subchunk2_size = 4 * nm.written
    /\ d7a.header # NoHeader =>
           /\ d7a.header.sample_rate = d7a.rate
           /\ d7a.header.byte_rate = 4 * d7a.rate
           /\ d7a.header.block_align = 4
           /\ d7a.header.bits_per_sample = 16
           /\ d7a.header.subchunk2_size = 4 * MaxIndex(wave.index)

---------------------------------------------------------------------------
(* Claims C21.. *)

\* the step is the beginning of a cromemco_d7a_record call on channel c:
\* lines 379-416, where whole and the carried drift are computed
Began(c) == prod.pc = "idle" /\ prod'.pc # "idle" /\ prod'.c = c

\* the step is the critical section of a call on channel c (build "sdl",
\* lines 419-499)
Wrote(c) == prod.pc = "lock" /\ prod'.pc = "last" /\ prod.c = c

\* the step is the return of a call on channel c (lines 505-510)
Returned(c) == prod.pc = "last" /\ prod'.pc = "idle" /\ prod.c = c

\* the samples the step has appended to channel c
Added(c) == SubSeq(appended'[c], Len(appended[c]) + 1, Len(appended'[c]))

\* the integer n with x = n / d for a double x >= 0 and 0 < d < Limb, or -1
\* if x is no multiple of 1 / d
Numerator(x, d) ==
    LET n == NMulSmall(x.m, d)
    IN  IF x.e >= 0 THEN NToInt(NShl(n, x.e))
        ELSE IF NLowZero(n, -x.e) THEN NToInt(NShr(n, -x.e))
        ELSE -1

\* C21 (as stated): every record call leaves each channel's carried drift
\* in [0,1), and for a channel written before, the whole it computes plus
\* the drift it carries equals the drift carried before plus the virtual
\* time elapsed since that channel's previous write times ratio (so that
\* the wholes and the drift add up to the elapsed time times ratio).
C21_DriftAccounts ==
    [][\A c \in Chan :
        /\ ~timing_error'[c].neg /\ DLess(timing_error'[c], DOne)
        /\ (Began(c) /\ hist.base[c] >= 0)
           => /\ Numerator(timing_error[c], ratio[2]) >= 0
              /\ Numerator(timing_error'[c], ratio[2]) >= 0
              /\ prod'.count * ratio[2]
                     + Numerator(timing_error'[c], ratio[2])
                  = Numerator(timing_error[c], ratio[2])
                     + (T - last_time[c]) * ratio[1]]_vars

\* C22: a write that computes whole 0 leaves the channel's samples, start,
\* end and count as they were (no step of the call changes them), and when
\* it returns the channel's last-write time is the current time and the
\* level remembered is the written one.
C22_WholeZero ==
    [][\A c \in Chan :
        /\ ((Began(c) /\ prod'.count = 0) \/ (Wrote(c) /\ prod.count = 0)
               \/ (Returned(c) /\ prod.count = 0))
           => /\ ring_buffer'.channel[c] = ring_buffer.channel[c]
              /\ Added(c) = <<>>
              /\ last_time'[c] = T
        /\ (Returned(c) /\ prod.count = 0)
           => last_data'[c] = prod.data]_vars
C22_Witness ==
    /\ prod.pc = "idle"
    /\ hist.w.whole = 0
    /\ hist.w.c = 1
    /\ hist.w.data = -100
    /\ hist.w.occupied = 3
    /\ last_data[1] = -100
    /\ Count(1) = 3

\* C23: a write that computes whole 1 and fits appends exactly the written
\* level: count grows by 1, end advances by 1 modulo the capacity, and the
\* overflow, dropout and timeout counters do not move.
C23_WholeOne ==
    [][\A c \in Chan :
        (Wrote(c) /\ prod.count = 1 /\ Count(c) < RING_BUFFER_SIZE)
        => /\ Added(c) = <<prod.data>>
           /\ ring_buffer'.channel[c].sample[End(c)] = prod.data
           /\ ring_buffer'.channel[c].count = Count(c) + 1
           /\ ring_buffer'.channel[c].end = (End(c) + 1) % RING_BUFFER_SIZE
           /\ ring_buffer'.channel[c].start = Start(c)
           /\ overflows' = overflows
           /\ dropouts' = dropouts
           /\ timeouts' = timeouts]_vars
C23_Witness ==
    /\ hist.w.whole = 1
    /\ hist.w.occupied = 5
    /\ hist.w.c = 0
    /\ hist.w.data = 50
    /\ Count(0) = RING_BUFFER_SIZE
    /\ End(0) = 0

\* the level k steps along the straight line from level a to level b in n
\* steps, truncated toward zero as the conversion to char does
OnLine(a, b, n, k) ==
    LET num == a * n + k * (b - a)
    IN  IF num >= 0 THEN num \div n ELSE -((-num) \div n)

\* C24: a write with 2 <= whole < 5 that fits appends exactly whole samples,
\* the k-th (k = 0..whole-1) being previous + k * (new - previous) / whole
\* truncated to an integer, previous being the level of the write before.
C24_Interpolates ==
    [][\A c \in Chan :
        (/\ Wrote(c)
         /\ prod.count \in 2 .. 4
         /\ prod.count <= RING_BUFFER_SIZE - Count(c))
        => /\ Len(Added(c)) = prod.count
           /\ \A k \in 0 .. prod.count - 1 :
                  Added(c)[k + 1] = OnLine(last_data[c], prod.data,
                                           prod.count, k)]_vars
C24_Witness ==
    /\ hist.w.whole = 3
    /\ hist.w.data = -100
    /\ hist.w.c = 0
    /\ Len(appended[0]) >= 3
    /\ SubSeq(appended[0], Len(appended[0]) - 2, Len(appended[0]))
           = <<50, 0, -50>>

\* C25 (as stated): every write with 2 <= whole < 5 that does not overflow
\* adds exactly 1 to the dropout counter.
C25_InterpolationIsDropout ==
    [][\A c \in Chan :
        (/\ Wrote(c)
         /\ prod.count \in 2 .. 4
         /\ prod.count <= RING_BUFFER_SIZE - Count(c))
        => dropouts' = dropouts + 1]_vars

\* C26 (as stated): every write with whole >= 5 that fits appends exactly
\* whole zero samples and adds exactly 1 to the dropout counter.
C26_SilenceIsDropout ==
    [][\A c \in Chan :
        (/\ Wrote(c)
         /\ prod.count >= 5
         /\ prod.count <= RING_BUFFER_SIZE - Count(c))
        => /\ Added(c) = [k \in 1 .. prod.count |-> 0]
           /\ dropouts' = dropouts + 1]_vars

\* C27: a write adds exactly 1 to the underflow counter if its channel's
\* count was 0 when it got the buffer, and nothing otherwise, whatever the
\* whole it computed.
C27_UnderflowIffEmpty ==
    [][\A c \in Chan :
        Wrote(c) => underflows' = (IF Count(c) = 0 THEN underflows + 1
                                   ELSE underflows)]_vars
C27_Witness ==
    /\ underflows = 2
    /\ hist.rec = 3
    /\ hist.w.occupied = 5
    /\ hist.w.whole = 1

\* the 17-bit register n shifted right by one, bit 16 fed with bit 0 XOR
\* bit 3 of n
Shifted(n) ==
    LET bit0 == n % 2
        bit3 == (n \div 8) % 2
    IN  (n \div 2) + (IF bit0 # bit3 THEN 65536 ELSE 0)

\* C28: on every chip tick the noise counter goes up by 1; when it thereby
\* reaches 2 * period (with the period untouched since the last reset:
\* exactly then) it is reset to 0 and the 17-bit register becomes
\* (old >> 1) with bit 16 = old bit 0 XOR old bit 3; on every other tick the
\* register is unchanged; the output is bit 0 of the register after the tick.
C28_NoiseStep ==
    [][obs'.ticks = obs.ticks + 1 =>
        LET ay == psg[1]
            then == psg'[1]
            reached == ay.noise_counter + 1 >= 2 * ay.noise_period
        IN  /\ then.noise \in 0 .. 131071
            /\ reached => then.noise_counter = 0
                          /\ then.noise = Shifted(ay.noise)
            /\ ~reached => then.noise_counter = ay.noise_counter + 1
                           /\ then.noise = ay.noise
            /\ (reached /\ obs.settled /\ ay.noise_period >= 1)
                   => ay.noise_counter + 1 = 2 * ay.noise_period
            /\ obs'.out = then.noise % 2]_vars
C28_Witness ==
    /\ psg[1].noise_period = 2
    /\ psg[1].noise_counter = 0
    /\ psg[1].noise = 16385
    /\ obs.settled
    /\ obs.out = 1

\* the step is the audio thread's return from slide_up or slide_down
SlideEnded == nm.cb.pc \in SlidePcs /\ nm'.cb.pc = "level"

\* the step is a statement of the CPU thread's write to register 13
ShapeWritten == nm'.out # nm.out /\ (nm.out.r = 13 \/ nm'.out.r = 13)

\* the function of the active segment
ActiveSegment == Envelopes(psg[1].envelope_shape, psg[1].envelope_segment)

\* C29 (as stated): when a slide-up step would take the level above 31 or a
\* slide-down step below 0, the segment index flips and the level becomes 31
\* if the new segment's table entry is slide-down or hold-top and 0
\* otherwise; every other slide step moves the level by exactly 1 (up for
\* slide-up, down for slide-down) and leaves the segment index alone.  The
\* step is taken from the fetch of its function (obs.was) to its return.
C29_SlideStep ==
    [][SlideEnded =>
        LET up == obs.was.fn = "slide_up"
            over == IF up THEN obs.was.envelope = 31
                    ELSE obs.was.envelope = 0
            flipped == 1 - obs.was.segment
        IN  IF over
            THEN /\ psg'[1].envelope_segment = flipped
                 /\ psg'[1].envelope =
                        (IF Envelopes(obs.was.shape, flipped)
                                \in {"slide_down", "hold_top"}
                         THEN 31 ELSE 0)
            ELSE /\ psg'[1].envelope_segment = obs.was.segment
                 /\ psg'[1].envelope = (IF up THEN obs.was.envelope + 1
                                        ELSE obs.was.envelope - 1)]_vars

\* C30 (as stated): while the active segment is hold-top or hold-bottom, no
\* step other than a write to register 13 changes the level or the segment
\* index (the reseeding by which a slide enters the hold, reset_segment on
\* the audio thread, belongs to the slide).
C30_HoldHolds ==
    [][(/\ ActiveSegment \in {"hold_top", "hold_bottom"}
        /\ ~ShapeWritten
        /\ nm.cb.pc \notin ResetPcs)
        => /\ psg'[1].envelope = psg[1].envelope
           /\ psg'[1].envelope_segment = psg[1].envelope_segment]_vars

---------------------------------------------------------------------------
(* Claims C31..: mixer, register interface, recording, life cycle, FIR     *)

\* the step is line 307 of the first chip's update_mixer for channel i
DacStep(i) == nm.cb.pc = "dac" /\ nm.cb.ch = i /\ nm'.cb # nm.cb

\* (tone | t_off) & (noise | n_off) of the values update_mixer has read for
\* the channel it is at
OutputBit(rd) == And1(Or1(rd.tone, rd.t_off), Or1(rd.noise, rd.n_off))

\* line 307 has looked up entry index for a channel whose output bit is 1
\* and entry 0 otherwise, and added it to the chip sample; after channel C
\* the sample is the sum of the three
Mixed(i, index) ==
    /\ psg'[1].out[i] = (IF OutputBit(obs.read) = 1 THEN index ELSE 0)
    /\ psg'[1].sample = DAdd(psg[1].sample, DacAt(psg'[1].out[i]))
    /\ i = TONE_CHANNELS - 1 =>
           psg'[1].sample =
               DAdd(DAdd(DAdd(DZero, DacAt(psg'[1].out[0])),
                         DacAt(psg'[1].out[1])),
                    DacAt(psg'[1].out[2]))

\* C31 as stated: on every mixer update the output bit of each channel is
\* (tone_bit OR tone_disabled) AND (noise_bit OR noise_disabled), the
\* amplitude index is envelope_level * 2 + 1 when the channel is
\* envelope-enabled and manual_volume * 2 + 1 otherwise, the channel sample
\* is DAC_table[amplitude index] for bit 1 and DAC_table[0] for bit 0, and
\* the chip sample is the sum of the three.  Every value is the one
\* update_mixer read.
C31_EnvelopeIndexDoubled ==
    [][\A i \in 0 .. TONE_CHANNELS - 1 :
           DacStep(i) =>
               Mixed(i, IF obs.read.e_on # 0 THEN obs.read.envelope * 2 + 1
                        ELSE obs.read.volume * 2 + 1)]_vars

\* C31 amended: as stated, but the amplitude index of an envelope-enabled
\* channel is the envelope level itself (0..31), and the table lookup is
\* made with exactly that index.
C31_MixerOutput ==
    [][\A i \in 0 .. TONE_CHANNELS - 1 :
           DacStep(i) =>
               Mixed(i, IF obs.read.e_on # 0 THEN obs.read.envelope
                        ELSE obs.read.volume * 2 + 1)]_vars

\* 34 ticks after register 13 was written with 12, register 8 was written
\* with 16 (envelope on) and a tick has taken the level from 2 to 3:
\* channel A sounds at entry 3, 0.00999465934234, where entry 7 is
\* 0.0210574502174
C31_Witness ==
    /\ obs.ticks > 0 /\ nm.cb.pc = "idle"
    /\ psg[1].channels[0].e_on = 1 /\ psg[1].envelope = 3
    /\ obs.read.envelope = 3
    /\ psg[1].out[0] = 3
    /\ DacAt(3) = Dec(<<0, 0, 9, 9, 9, 4, 6, 5, 9, 3, 4, 2, 3, 4>>)
    /\ DacAt(7) = Dec(<<0, 2, 1, 0, 5, 7, 4, 5, 0, 2, 1, 7, 4>>)
    /\ psg[1].sample = DAdd(DAdd(DacAt(3), DacAt(psg[1].out[1])),
                            DacAt(psg[1].out[2]))

\* the step is one of the CPU thread, in ads_noisemaker_out
OutStepped == nm'.outs = nm.outs + 1 \/ nm'.out # nm.out

\* the step is a statement of a data write to chip p: ads_noisemaker_out on
\* port 1 or 3
DataWritten(p) == OutStepped /\ obs'.port = 2 * p - 1

\* the step is a write to the register select of chip p: port 0 or 2
SelectWritten(p) == OutStepped /\ obs'.port = 2 * p - 2

\* x with bits lo .. hi - 1 cleared
WithoutBits(x, lo, hi) == x - (x % (2 ^ hi)) + (x % (2 ^ lo))

\* the chip with the parameter that register r maps to blanked out
Blanked(ay, r) ==
    CASE r \in {0, 2, 4} ->
           [ay EXCEPT !.channels[r \div 2].tone_period = WithoutBits(@, 0, 8)]
      [] r \in {1, 3, 5} ->
           [ay EXCEPT !.channels[r \div 2].tone_period = WithoutBits(@, 8, 12)]
      [] r = 6 -> [ay EXCEPT !.noise_period = 0]
      [] r = 7 ->
           [ay EXCEPT !.channels =
                [i \in 0 .. TONE_CHANNELS - 1 |->
                     [@[i] EXCEPT !.t_off = 0, !.n_off = 0]]]
      [] r \in {8, 9, 10} ->
           [ay EXCEPT !.channels[r - 8].volume = 0, !.channels[r - 8].e_on = 0]
      [] r = 11 -> [ay EXCEPT !.envelope_period = WithoutBits(@, 0, 8)]
      [] r = 12 -> [ay EXCEPT !.envelope_period = WithoutBits(@, 8, 16)]
      [] r = 13 ->
           [ay EXCEPT !.envelope_shape = 0, !.envelope_counter = 0,
                      !.envelope_segment = 0, !.envelope = 0]
      [] OTHER -> ay

\* C32: a data write to PSG register r changes only the parameter r maps
\* to and leaves all other chip state unchanged: 0/2/4 the low 8 bits and
\* 1/3/5 bits 8-11 of that channel's tone period, 6 the noise period, 7 the
\* six tone-disable and noise-disable flags, 8-10 that channel's 4-bit
\* volume and envelope-enable flag, 11/12 the low/high byte of the envelope
\* period, 13 envelope shape, counter, segment and level; 14 and 15 nothing.
C32_WriteChangesOnlyItsParameter ==
    [][\A p \in Chips :
           DataWritten(p) =>
               /\ Blanked(psg'[p], sel[p]) = Blanked(psg[p], sel[p])
               /\ \A i \in 0 .. TONE_CHANNELS - 1 :
                      /\ psg'[p].channels[i].volume \in 0 .. 15
                      /\ psg'[p].channels[i].e_on \in {0, 1}]_vars

\* during a chip tick of the first chip (tone A inverted), register 1 of
\* that chip was written with 21: period 5 * 256 + 1, low byte kept
C32_Witness ==
    /\ obs.port = 1 /\ obs.data = 21 /\ sel[1] = 1
    /\ nm.out.pc = "idle"
    /\ psg[1].channels[0].tone_period = 5 * 256 + 1
    /\ psg[1].channels[0].tone = 1
    /\ nm.cb.pc # "idle"

\* C33: the two PSG instances are independent: a write to port 0 only sets
\* PSG 1's register select to data & 0xF, a write to port 1 changes nothing
\* but PSG 1's state, and both leave PSG 2's state and register select
\* unchanged; symmetrically ports 2 and 3 affect only PSG 2.
C33_ChipsIndependent ==
    [][\A p \in Chips :
           LET q == 3 - p
           IN  /\ SelectWritten(p) =>
                      /\ sel'[p] = obs'.data % 16
                      /\ psg' = psg
                      /\ sel'[q] = sel[q]
               /\ DataWritten(p) =>
                      /\ sel' = sel
                      /\ psg'[q] = psg[q]]_vars

\* the second chip's register 7 has just been written with 21, a chip tick
\* of the first chip having begun: tone of its channels A and C is off,
\* the first chip's mixer bits and register select are untouched
C33_Witness ==
    /\ obs.port = 3 /\ obs.data = 21
    /\ nm.out.pc = "idle"
    /\ sel[1] = 0 /\ sel[2] = 7
    /\ psg[2].channels[0].t_off = 1 /\ psg[2].channels[2].t_off = 1
    /\ psg[2].channels[1].t_off = 0
    /\ psg[1].channels[0].t_off = 0
    /\ obs.ticks = 1

\* C34: while recording is enabled and below its limit, every sample
\* cromemco_d7a_record appends to a channel's ring buffer is stored with
\* the same value in that channel's next recording entry: the recorded
\* sequence of a channel equals the sequence of samples appended to its
\* ring buffer (single, interpolated and silence samples alike).
C34_RecordingEqualsAppended ==
    \A c \in Chan :
        WaveOn(wave) /\ wave.index[c] < wave.limit - 1 =>
            wave.sample[c] = appended[c]

\* C35: with recording enabled, every index cromemco_d7a_record uses to
\* read or write the recording buffer lies in 0 .. d7a_recording_limit - 1,
\* the index wave_index[c] - 1 of the entry that receives an overflow,
\* dropout or timeout tag included, also when no sample has yet been
\* recorded on that channel.
C35_RecordingIndexInRange ==
    WaveOn(wave) => ~wave.wild

\* C36: in ads_noisemaker_init the audio sink is started only after both
\* PSG instances are configured and the recording buffer, size and index
\* are set: no audio callback runs ayumi_process while the init thread is
\* still between opening the sink and the end of the configuration.
C36_SinkStartedAfterSetup ==
    nm.cb.pc # "idle" => nm.pc \notin {"off", "alloc", "size", "index", "chips"}

\* C37: every call of ads_noisemaker_off ends with the audio sink stopped
\* and the recording buffer released, whether or not an export file is
\* configured and whether or not that file can be opened.
C37_OffReleasesEverything ==
    nm.pc = "done" => ~nm.sink /\ nm.buffer # "alloc"

\* C38: from its seed value 1 the noise shift register never becomes 0 and
\* never exceeds 17 bits: after any number of ticks and any register writes
\* its value is in 1 .. 2^17 - 1.
C38_NoiseNeverLocks ==
    \A p \in Chips : psg[p].noise \in 1 .. 2 ^ 17 - 1

\* seventeen shifts after the seed the register holds 16385 (bits 14 and 0:
\* every bit of the seed's feedback has passed through the register), the
\* period register having been written with 1
C38_Witness ==
    /\ psg[1].noise = 16385
    /\ psg[1].noise_period = 1
    /\ sel[1] = 6

\* C39: whenever the mixer runs, for any sequence of register writes and
\* ticks, the index used for each channel's lookup in the 32-entry DAC
\* table lies in 0 .. 31: the index update_mixer holds when it reaches line
\* 307, and the one it has used for each channel.
C39_DacIndexInRange ==
    /\ nm.cb.pc = "dac" => nm.cb.out \in 0 .. Len(AY_dac_table) - 1
    /\ \A i \in 0 .. TONE_CHANNELS - 1 :
           psg[1].out[i] \in 0 .. Len(AY_dac_table) - 1

\* the tick read e_on = 0 for channel A, the CPU thread then stored e_on = 1
\* (the first statement of a write to register 8), and the tick is about
\* to look up entry 31 = 15 * 2 + 1 for the volume it read after that
C39_Witness ==
    /\ nm.cb.pc = "dac" /\ nm.cb.ch = 0
    /\ nm.cb.out = 31
    /\ obs.read.e_on = 0 /\ obs.read.volume = 15
    /\ psg[1].channels[0].e_on = 1
    /\ nm.out.pc = "store" /\ nm.out.r = 8

\* ayumi_process on chip p has advanced fir_index (line 452) and has not
\* yet handed its window to decimate
Advanced(p) ==
    /\ nm.cb.p = p
    /\ nm.cb.pc \in ProcessPcs \ {"base", "fir_index", "next"}

\* C40: for any number of ayumi_process calls fir_index stays in 0 .. 22
\* (it is the number of calls begun modulo 23), every access to the FIR
\* history stays inside its 2 * 192-entry array, and the 192-entry window
\* handed to the decimator holds the most recent sub-samples in order
\* (newest 8 first, then the 8 of the previous call, and so on for 24
\* calls), as a plain sliding window over the sub-sample stream would:
\* entry j is the sub-sample j places before the newest one, or the initial
\* zero where the stream is shorter.
C40_SlidingWindow ==
    \A p \in Chips :
        /\ psg[p].fir_index \in 0 .. 22
        /\ psg[p].fir_index
               = (obs.calls[p] + IF Advanced(p) THEN 1 ELSE 0) % 23
        /\ ~obs.wild
        /\ \A j \in 0 .. FIR_SIZE - 1 :
               obs.win[p][j] = Max(DECIMATE_FACTOR * obs.calls[p] - j, 0)

\* the first chip has made 47 calls, two laps of fir_index and one more,
\* the last of them with a port write in between: its window runs from
\* sub-sample 376 down to sub-sample 185
C40_Witness ==
    /\ obs.calls[1] = 47
    /\ psg[1].fir_index = 1
    /\ nm.outs = 1
    /\ obs.win[1][0] = 376
    /\ obs.win[1][191] = 185

====
